---- MODULE Spec2Model ----
(***************************************************************************)
(* Entity extraction and normalisation engine of the invoice/BOL parser.   *)
(*                                                                         *)
(* The module holds several specifications over one variable list:         *)
(*   SpecItems  the line-item extractors (_extract_items_from_page and     *)
(*              _extract_shipment_items of bol_document_ai.py)             *)
(*   SpecAddr   the address assemblers (_extract_address_from_entities of  *)
(*              bol_document_ai.py, _extract_address of document_ai.py)    *)
(*   SpecConf   the confidence scorers (_calculate_confidence_scores of    *)
(*              both services)                                             *)
(*   SpecDoc    the record builders (extract_bol_data and                  *)
(*              extract_multiple_bols of bol_document_ai.py) with the      *)
(*              entity extraction cascade                                  *)
(* Each specification draws its input in Init and leaves the variables of  *)
(* the other specifications at their idle values.                          *)
(*                                                                         *)
(* Text is modelled as a sequence of tokens; a token stands for one        *)
(* character class or one literal of the regular expressions of the        *)
(* source, and the matching operators below follow Python's re semantics   *)
(* (leftmost match, greedy quantifiers with backtracking) on tokens.       *)
(***************************************************************************)
EXTENDS Integers, Sequences, FiniteSets, TLC

VARIABLES
    item_in,      \* input of the line-item extractors: page text, tables, entities
    item_call,    \* "none" | "page" | "document": which extractor has run
    item_out,     \* [items, attempted] returned by the extractor
    addr_in,      \* input of the address assemblers: [entities, prefix]
    addr_call,    \* "none" | "bol" | "invoice": which assembler has run
    addr_out,     \* the Address returned, or NoAddress
    conf_in,      \* input of the confidence scorers: document.entities
    conf_call,    \* "none" | "bol" | "invoice": which scorer has run
    conf_out,     \* the confidence map returned
    doc_in,       \* input of the record builders: the analysed document
    doc_call,     \* "none" | "single" | "multi": which entry point has run
    doc_out,      \* [records, trace] returned by the entry point
    val_in,       \* input of the endpoints: the result of the parse call
    val_call,     \* "none" | "parse_bol" | "parse_invoice": which endpoint has run
    val_out,      \* [response, validation, logged] of the endpoint
    scalar_in,    \* input of the scalar parsers: [kind, text]
    scalar_call,  \* "none" or the name of the parser that has run
    scalar_out,   \* the outcome of the parser
    inv_in,       \* input of extract_invoice_data: the analysed document
    inv_call,     \* "none" | "extract_invoice_data"
    inv_out,      \* the outcome: the InvoiceData returned or the exception raised
    map_in,       \* the label of a form field
    map_call,     \* the mapper call made
    map_out,      \* the canonical key returned
    terms_in,     \* freight charge terms met in a document
    terms_call,   \* the extraction path taken
    terms_out,    \* freight_charge_terms of the record
    ctor_in,      \* keyword arguments of a ShipmentItem constructor call
    ctor_call,    \* the constructor call made
    ctor_out,     \* the item built, or the error raised
    conc_in,      \* the documents the concurrent callers pass, as given
    conc_docs,    \* the same documents while the calls run
    conc_self,    \* the fields of the one service object
    conc_pc,      \* per caller, the statement of extract_bol_data it is at
    conc_frames,  \* per call frame, the local variables of extract_bol_data
    conc_out,     \* per caller, the record returned
    sect_in,      \* the text given to the section detector
    sect_call,    \* the detector call made
    sect_out,     \* the sections returned
    multi_in,     \* the request of parse_bol: storage state, document, metadata
    multi_pc,     \* the line parse_bol_multi / parse_bol has reached
    multi_bols,   \* bol_data_list
    multi_error,  \* the exception in flight in parse_bol_multi, <<>> when none
    multi_calls,  \* the collaborator calls made so far, each with its outcome
    multi_out,    \* what parse_bol_multi handed to its caller
    multi_single, \* what parse_bol handed to its caller
    batch_in,     \* the batch call: [kind, files, max_workers]
    batch_pc,     \* the statement parse_batch has reached
    batch_chunk,  \* i of the chunk loop of BOLParser.parse_batch
    batch_sem,    \* the free slots of the semaphore of InvoiceParser.parse_batch
    batch_task,   \* per file: the state, start count and result of its parse call
    batch_results,\* the list results / parse_results
    batch_out,    \* what parse_batch handed to its caller
    disc_in,      \* the processors the analysis project holds before the calls
    disc_server,  \* the processors the analysis project holds
    disc_self,    \* the fields of the one DocumentAIService the threads share
    disc_pc,      \* per thread, the line of _process_document_sync it is at
    disc_local,   \* per thread, the local variables of _process_document_sync
    disc_used     \* per thread, the processor the process request named

itemVars == <<item_in, item_call, item_out>>
addrVars == <<addr_in, addr_call, addr_out>>
confVars == <<conf_in, conf_call, conf_out>>
docVars == <<doc_in, doc_call, doc_out>>
valVars == <<val_in, val_call, val_out>>
scalarVars == <<scalar_in, scalar_call, scalar_out>>
invVars == <<inv_in, inv_call, inv_out>>
mapVars == <<map_in, map_call, map_out>>
termsVars == <<terms_in, terms_call, terms_out>>
ctorVars == <<ctor_in, ctor_call, ctor_out>>
concVars == <<conc_in, conc_docs, conc_self, conc_pc, conc_frames, conc_out>>
sectVars == <<sect_in, sect_call, sect_out>>
multiVars == <<multi_in, multi_pc, multi_bols, multi_error, multi_calls, multi_out, multi_single>>
batchVars == <<batch_in, batch_pc, batch_chunk, batch_sem, batch_task, batch_results, batch_out>>
discVars == <<disc_in, disc_server, disc_self, disc_pc, disc_local, disc_used>>
vars == <<itemVars, addrVars, confVars, docVars,
         valVars,
         scalarVars,
         invVars,
         mapVars,
         termsVars,
         ctorVars,
         concVars,
         sectVars,
         multiVars,
         batchVars,
         discVars>>

\* Text values are token sequences ("" is <<>>); Python's None is a
\* sequence holding a token no text holds.  Dictionaries are functions.
None == <<"<None>">>
NoAddress == [none |-> TRUE]

(***************************************************************************)
(* Bounds                                                                  *)
(***************************************************************************)
MaxTextLen == 4
MaxAddrKeys == 2
MaxConfEntities == 3
MaxDocLen == 4
MaxDateLen == 5
MaxNumberLen == 4

(***************************************************************************)
(* Generic sequence helpers                                                *)
(***************************************************************************)
SeqsUpTo(S, n) == UNION {[1..k -> S] : k \in 0..n}

\* the subsets of K with at most n elements
RECURSIVE SubsetsUpTo(_, _)
SubsetsUpTo(K, n) ==
    IF n = 0 THEN {{}}
    ELSE LET prev == SubsetsUpTo(K, n - 1)
         IN prev \cup {S \cup {k} : S \in prev, k \in K}

\* the dictionaries with at most n keys of K and values in V
DictsUpTo(K, V, n) == UNION {[S -> V] : S \in SubsetsUpTo(K, n)}

Slice(s, a, b) == IF a > b THEN <<>> ELSE SubSeq(s, a, b)

Min(S) == CHOOSE x \in S : \A y \in S : x <= y
Max(S) == CHOOSE x \in S : \A y \in S : x >= y

\* smallest index k >= a whose element fails P, or Len(s)+1: the end of a
\* greedy run of P starting at a
RunEnd(s, a, P(_)) ==
    Min({k \in a..(Len(s) + 1) : k = Len(s) + 1 \/ ~P(s[k])})

(***************************************************************************)
(* Item text tokens                                                        *)
(*   PKG   "# PACKAGES"                  (start marker of the item window) *)
(*   END   "FREIGHT CHARGES:" | "TOTAL" | "RECEIVED"        (end markers)  *)
(*   NMFC  "NMFC #12345"                 (NMFC\s*#([\d-]+), code 12345)    *)
(*   CM    ","    SP  " "    NL  "\n"                                      *)
(*   W     a word of ordinary text       PCF   the literal "PCF"           *)
(***************************************************************************)
ItemTokens == {"PKG", "END", "NMFC", "CM", "SP", "NL", "W", "PCF"}

NmfcCode == "12345"

IsSep(t) == t \in {"CM", "SP", "NL"}         \* [,\s]
IsDescChar(t) == t \notin {"CM", "NL"}        \* [^,\n]
IsSpace(t) == t \in {"SP", "NL"}              \* \s, as str.strip() removes

RECURSIVE Strip(_)
Strip(s) ==
    IF s = <<>> THEN s
    ELSE IF IsSpace(Head(s)) THEN Strip(Tail(s))
    ELSE IF IsSpace(s[Len(s)]) THEN Strip(SubSeq(s, 1, Len(s) - 1))
    ELSE s

\* re.sub(r'PCF.*$', '', description): description holds no newline, so the
\* first PCF and everything after it go
RemovePcfTail(s) ==
    LET hits == {i \in 1..Len(s) : s[i] = "PCF"}
    IN IF hits = {} THEN s ELSE Slice(s, 1, Min(hits) - 1)

(***************************************************************************)
(* r'NMFC\s*#([\d-]+)[,\s]+([^,\n]+)' tried at token i.  The separator run  *)
(* is greedy; when it runs to the end of the text the matcher backtracks   *)
(* and gives the last blank back to the description group.                 *)
(***************************************************************************)
NoMatch == [ok |-> FALSE, code |-> None, desc |-> <<>>, next |-> 0]

NmfcMatchAt(s, i) ==
    IF i > Len(s) \/ s[i] # "NMFC" THEN NoMatch
    ELSE LET j == i + 1
             k == RunEnd(s, j, IsSep)
         IN  IF k = j THEN NoMatch
             ELSE IF k <= Len(s)
             THEN LET e == RunEnd(s, k, IsDescChar)
                  IN [ok |-> TRUE, code |-> NmfcCode,
                      desc |-> Slice(s, k, e - 1), next |-> e]
             ELSE LET starts == {m \in (j + 1)..Len(s) : IsDescChar(s[m])}
                  IN IF starts = {} THEN NoMatch
                     ELSE LET m == Max(starts)
                              e == RunEnd(s, m, IsDescChar)
                          IN [ok |-> TRUE, code |-> NmfcCode,
                              desc |-> Slice(s, m, e - 1), next |-> e]

\* re.search: the leftmost position from which the pattern matches
NmfcSearchFrom(s, from) ==
    LET hits == {i \in from..Len(s) : NmfcMatchAt(s, i).ok}
    IN IF hits = {} THEN NoMatch ELSE NmfcMatchAt(s, Min(hits))

NmfcSearch(s) == NmfcSearchFrom(s, 1)

\* re.findall: successive non-overlapping matches, left to right
RECURSIVE NmfcFindAllFrom(_, _)
NmfcFindAllFrom(s, from) ==
    LET m == NmfcSearchFrom(s, from)
    IN IF ~m.ok THEN <<>> ELSE <<m>> \o NmfcFindAllFrom(s, m.next)

NmfcFindAll(s) == NmfcFindAllFrom(s, 1)

(***************************************************************************)
(* r'#\s*PACKAGES[\s\S]*?(?=FREIGHT CHARGES:|TOTAL|RECEIVED|$)': from the   *)
(* first start marker, lazily, to the first place where an end marker or   *)
(* the end of the text follows ($ also matches before a final newline).    *)
(***************************************************************************)
ItemSection(s) ==
    LET starts == {i \in 1..Len(s) : s[i] = "PKG"}
    IN IF starts = {} THEN [found |-> FALSE, text |-> <<>>]
       ELSE LET p == Min(starts)
                q == Min({x \in (p + 1)..(Len(s) + 1) :
                            \/ x = Len(s) + 1
                            \/ s[x] = "END"
                            \/ (x = Len(s) /\ s[x] = "NL")})
            IN [found |-> TRUE, text |-> Slice(s, p, q - 1)]

(***************************************************************************)
(* ShipmentItem: description is the one required field (models/bol.py).    *)
(* A description is a token sequence; the empty string is <<>>.            *)
(***************************************************************************)
ShipmentItem(description, nmfc_code) ==
    [description |-> description, nmfc_code |-> nmfc_code]

SynthDescription(code) == <<"Item with NMFC #", code>>

(***************************************************************************)
(* Tables.  A table is [header_rows, body_rows]; a row is a sequence of    *)
(* cells; a header cell holds its text as a string, a body cell its text   *)
(* as a token sequence (so that strip() is Strip).                         *)
(***************************************************************************)
\* str.lower().strip() on the header texts of the vocabulary
LowerStrip(h) ==
    CASE h = "Description" -> "description"
      [] h = " DESCRIPTION " -> "description"
      [] h = "Commodity" -> "commodity"
      [] h = "Weight" -> "weight"
      [] OTHER -> h

Get(d, k) == IF k \in DOMAIN d THEN d[k] ELSE None

Truthy(v) == v # None /\ v # <<>>

\* Python's `a or b`
Or(a, b) == IF Truthy(a) THEN a ELSE b

\* row_data[headers[idx]] = cell_text.strip() for idx < len(headers); a later
\* column under the same header overwrites an earlier one
RowData(headers, row) ==
    LET n == IF Len(row) < Len(headers) THEN Len(row) ELSE Len(headers)
        keys == {headers[i] : i \in 1..n}
    IN [k \in keys |-> Strip(row[Max({i \in 1..n : headers[i] = k})])]

ParseTableRowToShipmentItem(row_data) ==
    LET description ==
            Or(Get(row_data, "description"),
               Or(Get(row_data, "commodity"),
                  Or(Get(row_data, "product"), Get(row_data, "item"))))
    IN IF ~Truthy(description) THEN <<>>
       ELSE <<ShipmentItem(description, Get(row_data, "nmfc"))>>

RECURSIVE TableRowsToItems(_, _)
TableRowsToItems(headers, rows) ==
    IF rows = <<>> THEN <<>>
    ELSE LET row_data == RowData(headers, Head(rows))
         IN (IF DOMAIN row_data = {} THEN <<>>
             ELSE ParseTableRowToShipmentItem(row_data))
            \o TableRowsToItems(headers, Tail(rows))

ExtractItemsFromTable(table) ==
    IF table.header_rows = <<>> \/ table.body_rows = <<>> THEN <<>>
    ELSE LET hr == table.header_rows[1]
             headers == [i \in 1..Len(hr) |-> LowerStrip(hr[i])]
         IN TableRowsToItems(headers, table.body_rows)

RECURSIVE ItemsOfTables(_)
ItemsOfTables(tables) ==
    IF tables = <<>> THEN <<>>
    ELSE ExtractItemsFromTable(Head(tables)) \o ItemsOfTables(Tail(tables))

(***************************************************************************)
(* _extract_items_from_page: tables of the page, then the raw-text window, *)
(* then the NMFC/description pair fallback over the whole page text.       *)
(***************************************************************************)
\* lines 608-652: one item out of the window, or none
ItemsFromWindow(item_text) ==
    LET nmfc_match == NmfcSearch(item_text)
        description == RemovePcfTail(Strip(nmfc_match.desc))
        cleaned == Strip(description)
    IN IF ~nmfc_match.ok THEN <<>>
       ELSE IF cleaned # <<>>
       THEN <<ShipmentItem(cleaned, nmfc_match.code)>>
       ELSE <<ShipmentItem(SynthDescription(nmfc_match.code), nmfc_match.code)>>

\* the pair scan stopping at the first pair
PairItemsFirstOnly(page_text) ==
    LET ms == NmfcFindAll(page_text)
    IN [i \in 1..(IF ms = <<>> THEN 0 ELSE 1) |->
           ShipmentItem(Strip(ms[i].desc), ms[i].code)]

\* lines 655-664: one item per pair found in the page text
PairItems(page_text) ==
    LET ms == NmfcFindAll(page_text)
    IN [i \in 1..Len(ms) |-> ShipmentItem(Strip(ms[i].desc), ms[i].code)]

\* lines 598-664: the window first, the pairs only when it gave nothing
TextItems(page_text) ==
    LET item_section == ItemSection(page_text)
        window_items == IF item_section.found
                        THEN ItemsFromWindow(item_section.text) ELSE <<>>
    IN IF window_items # <<>> THEN window_items ELSE PairItems(page_text)

\* a plausible slip: the text items are added to the table items
ExtractItemsFromPageNoGuard(tables, page_text) ==
    [items |-> ItemsOfTables(tables) \o TextItems(page_text),
     attempted |-> <<"tables", "text">>]

ExtractItemsFromPage(tables, page_text) ==
    LET table_items == ItemsOfTables(tables)
    IN IF table_items # <<>>
       THEN [items |-> table_items, attempted |-> <<"tables">>]
       ELSE [items |-> TextItems(page_text),
             attempted |-> <<"tables", "text">>]

(***************************************************************************)
(* _extract_shipment_items: structured item entities, then the tables of   *)
(* every page.  An entity is [type_, mention_text, confidence, properties]; *)
(* a property is [type_, mention_text, anchor] (anchor: text_anchor.content *)
(* or None when the property has no text anchor).                          *)
(***************************************************************************)
\* str.lower() on the type tags of the vocabulary
Lower(t) ==
    CASE t = "Line_Item" -> "line_item"
      [] t = "Description" -> "description"
      [] t = "Overall" -> "overall"
      [] t = "BOL_Number" -> "bol_number"
      [] t = "BOL #" -> "bol #"
      [] t = "PRO #" -> "pro #"
      [] t = "Bill of Lading" -> "bill of lading"
      [] t = "Pro Number" -> "pro number"
      [] t = "SHIPPER INFORMATION" -> "shipper information"
      [] t = "Shipper Name" -> "shipper name"
      [] t \in {"Shipper", "SHIPPER"} -> "shipper"
      [] t = "Consignee" -> "consignee"
      [] t = "Carrier" -> "carrier"
      [] t \in {"Name", "NAME"} -> "name"
      [] t = "Address" -> "address"
      [] t = "Date" -> "date"
      [] t = "Ship" -> "ship"
      [] t = "Pickup" -> "pickup"
      [] t = "Delivery" -> "delivery"
      [] t = "Weight" -> "weight"
      [] t = "Total" -> "total"
      [] t = "Freight Charge" -> "freight charge"
      [] t = "Acme" -> "acme"
      [] t \in {"Collect", "COLLECT"} -> "collect"
      [] t \in {"Prepaid", "PREPAID"} -> "prepaid"
      [] t \in {"Third", "THIRD"} -> "third"
      [] t \in {"Party", "PARTY"} -> "party"
      [] t = "COD" -> "cod"
      [] OTHER -> t

\* str.lower().replace(" ", "_")
LowerUnderscore(t) ==
    CASE t = "Carrier Name" -> "carrier_name"
      [] t = "shipper name" -> "shipper_name"
      [] OTHER -> Lower(t)

PropValue(prop) == Or(prop.mention_text, prop.anchor)

\* item_data[prop_type] = value, the last property of a type winning
ItemData(props) ==
    LET keys == {LowerUnderscore(props[i].type_) : i \in 1..Len(props)}
    IN [k \in keys |->
          PropValue(props[Max({i \in 1..Len(props) :
                                 LowerUnderscore(props[i].type_) = k})])]

ItemEntityTypes == {"line_item", "shipment_item", "cargo_item"}

RECURSIVE ItemsOfEntities(_)
ItemsOfEntities(ents) ==
    IF ents = <<>> THEN <<>>
    ELSE LET entity == Head(ents)
             item_data == ItemData(entity.properties)
             description == Or(Get(item_data, "description"),
                               Or(Get(item_data, "commodity"), <<>>))
             mine ==
                 IF Lower(entity.type_) \in ItemEntityTypes
                    /\ (Truthy(Get(item_data, "description"))
                        \/ Truthy(Get(item_data, "commodity")))
                 THEN <<ShipmentItem(description,
                                     Or(Get(item_data, "nmfc_code"),
                                        Get(item_data, "nmfc")))>>
                 ELSE <<>>
         IN mine \o ItemsOfEntities(Tail(ents))

RECURSIVE ItemsOfPages(_)
ItemsOfPages(pages) ==
    IF pages = <<>> THEN <<>>
    ELSE ItemsOfTables(Head(pages).tables) \o ItemsOfPages(Tail(pages))

ExtractShipmentItems(document) ==
    LET entity_items == ItemsOfEntities(document.entities)
    IN IF entity_items # <<>>
       THEN [items |-> entity_items, attempted |-> <<"entities">>]
       ELSE IF document.pages # <<>>
       THEN [items |-> ItemsOfPages(document.pages),
             attempted |-> <<"entities", "tables">>]
       ELSE [items |-> <<>>, attempted |-> <<"entities">>]

(***************************************************************************)
(* SpecItems: the line-item extractors applied to one analysed page.       *)
(***************************************************************************)
ItemTexts == SeqsUpTo(ItemTokens, MaxTextLen)

Table(header, body) == [header_rows |-> header, body_rows |-> body]

TableChoices ==
    { <<>>,
      <<Table(<<<<"Description">>>>, <<<<(<<"W">>)>>>>)>>,
      <<Table(<<<<" DESCRIPTION ", "Weight">>>>,
              <<<<(<<"SP">>), (<<"W">>)>>, <<(<<"W", "SP">>), <<>>>>>>)>>,
      <<Table(<<<<"Weight">>>>, <<<<(<<"W">>)>>>>)>>,
      <<Table(<<>>, <<<<(<<"W">>)>>>>),
        Table(<<<<"Commodity">>>>, <<<<(<<"W">>)>>>>)>> }

Prop(t, mention, anchor) ==
    [type_ |-> t, mention_text |-> mention, anchor |-> anchor]

Entity(t, mention, confidence, props) ==
    [type_ |-> t, mention_text |-> mention, confidence |-> confidence,
     properties |-> props]

ItemEntityChoices ==
    { <<>>,
      <<Entity("Line_Item", <<"W">>, 0,
               <<Prop("Description", <<"W">>, None)>>)>>,
      <<Entity("line_item", <<"W">>, 0,
               <<Prop("weight", <<"W">>, None),
                 Prop("description", <<>>, None)>>)>>,
      <<Entity("bol_number", <<"W">>, 0, <<>>),
        Entity("cargo_item", <<>>, 0,
               <<Prop("commodity", <<>>, <<"W", "SP">>)>>)>> }

IdleItems ==
    /\ item_in = [page_text |-> <<>>, tables |-> <<>>, entities |-> <<>>]
    /\ item_call = "none"
    /\ item_out = [items |-> <<>>, attempted |-> <<>>]

IdleAddr ==
    /\ addr_in = [entities |-> <<>>, prefix |-> "shipper"]
    /\ addr_call = "none"
    /\ addr_out = NoAddress

IdleConf ==
    /\ conf_in = <<>>
    /\ conf_call = "none"
    /\ conf_out = <<>>

IdleDoc ==
    /\ doc_in = [text |-> <<>>, pages |-> <<>>, entities |-> <<>>]
    /\ doc_call = "none"
    /\ doc_out = [records |-> <<>>, trace |-> <<>>]

\* data=None of a failed parse response
NoData == [none |-> TRUE]

\* an Optional number or date: <<>> when absent, <<n>> when present
Absent == <<>>
Some(n) == <<n>>

\* the outcome of a call: a returned value or a raised exception
Return(value) == [raised |-> "none", value |-> value, message |-> <<>>]
Raise(exception, message) ==
    [raised |-> exception, value |-> <<>>, message |-> message]
NotCalled == [raised |-> "not called", value |-> <<>>, message |-> <<>>]

IdleValid ==
    /\ val_in = [kind |-> "bol", result |-> [success |-> FALSE, data |-> NoData]]
    /\ val_call = "none"
    /\ val_out = [response |-> [success |-> FALSE, data |-> NoData], validation |-> NotCalled, logged |-> <<>>]

IdleParse ==
    /\ scalar_in = [kind |-> "date", text |-> <<>>]
    /\ scalar_call = "none"
    /\ scalar_out = NotCalled

IdleInvoice ==
    /\ inv_in = [text |-> <<>>, pages |-> <<>>, entities |-> <<>>]
    /\ inv_call = "none"
    /\ inv_out = NotCalled

IdleMap ==
    /\ map_in = <<>>
    /\ map_call = "none"
    /\ map_out = "not called"

IdleTerms ==
    /\ terms_in = [source |-> "none", value |-> <<>>]
    /\ terms_call = "none"
    /\ terms_out = <<>>

IdleCtor ==
    /\ ctor_in = <<>>
    /\ ctor_call = "none"
    /\ ctor_out = NotCalled

IdleConc ==
    /\ conc_in = <<>>
    /\ conc_docs = <<>>
    /\ conc_self = [processor_id |-> "p", client |-> "c"]
    /\ conc_pc = <<>>
    /\ conc_frames = <<>>
    /\ conc_out = <<>>

IdleSect ==
    /\ sect_in = <<>>
    /\ sect_call = "none"
    /\ sect_out = <<>>

IdleMulti ==
    /\ multi_in = <<>>
    /\ multi_pc = "idle"
    /\ multi_bols = <<>>
    /\ multi_error = <<>>
    /\ multi_calls = <<>>
    /\ multi_out = NotCalled
    /\ multi_single = NotCalled

IdleBatch ==
    /\ batch_in = <<>>
    /\ batch_pc = "idle"
    /\ batch_chunk = 0
    /\ batch_sem = 0
    /\ batch_task = <<>>
    /\ batch_results = <<>>
    /\ batch_out = NotCalled

IdleDisc ==
    /\ disc_in = <<>>
    /\ disc_server = <<>>
    /\ disc_self = [processor_id |-> <<>>]
    /\ disc_pc = <<>>
    /\ disc_local = <<>>
    /\ disc_used = <<>>

InitItems ==
    /\ item_in \in [page_text : ItemTexts, tables : TableChoices,
                     entities : ItemEntityChoices]
    /\ item_call = "none"
    /\ item_out = [items |-> <<>>, attempted |-> <<>>]
    /\ IdleAddr
    /\ IdleConf
    /\ IdleDoc
    /\ IdleValid
    /\ IdleParse
    /\ IdleInvoice
    /\ IdleMap
    /\ IdleTerms
    /\ IdleCtor
    /\ IdleConc
    /\ IdleSect
    /\ IdleMulti
    /\ IdleBatch
    /\ IdleDisc

\* extract_multiple_bols line 119
RunExtractItemsFromPage ==
    /\ item_call = "none"
    /\ item_call' = "page"
    /\ item_out' = ExtractItemsFromPage(item_in.tables, item_in.page_text)
    /\ UNCHANGED <<item_in, addrVars, confVars, docVars,
                 valVars,
                 scalarVars,
                 invVars,
                 mapVars,
                 termsVars,
                 ctorVars,
                 concVars,
                 sectVars,
                 multiVars,
                 batchVars,
                 discVars>>

\* extract_bol_data line 167
RunExtractShipmentItems ==
    /\ item_call = "none"
    /\ item_call' = "document"
    /\ item_out' = ExtractShipmentItems(
                       [entities |-> item_in.entities,
                        pages |-> <<[tables |-> item_in.tables]>>])
    /\ UNCHANGED <<item_in, addrVars, confVars, docVars,
                 valVars,
                 scalarVars,
                 invVars,
                 mapVars,
                 termsVars,
                 ctorVars,
                 concVars,
                 sectVars,
                 multiVars,
                 batchVars,
                 discVars>>

NextItems == RunExtractItemsFromPage \/ RunExtractShipmentItems

SpecItems == InitItems /\ [][NextItems]_vars

(***************************************************************************)
(* SpecItemText: _extract_items_from_page on a page without tables whose   *)
(* text is long enough to hold two code/description pairs (a pair takes    *)
(* three tokens and a separator ends its description).                     *)
(***************************************************************************)
MaxPairTextLen == 7

PairTokens == {"PKG", "NMFC", "CM", "W"}

InitItemText ==
    /\ \E n \in 0..MaxPairTextLen :
          \E t \in [1..n -> PairTokens] :
             item_in = [page_text |-> t, tables |-> <<>>, entities |-> <<>>]
    /\ item_call = "none"
    /\ item_out = [items |-> <<>>, attempted |-> <<>>]
    /\ IdleAddr
    /\ IdleConf
    /\ IdleDoc
    /\ IdleValid
    /\ IdleParse
    /\ IdleInvoice
    /\ IdleMap
    /\ IdleTerms
    /\ IdleCtor
    /\ IdleConc
    /\ IdleSect
    /\ IdleMulti
    /\ IdleBatch
    /\ IdleDisc

NextItemText == RunExtractItemsFromPage

SpecItemText == InitItemText /\ [][NextItemText]_vars

(***************************************************************************)
(* Address assembler                                                       *)
(***************************************************************************)
AddressPrefixes == {"shipper", "consignee", "bill_to"}
InvoicePrefixes == {"supplier", "receiver"}
AddressSuffixes ==
    {"", "_name", "_street", "_address", "_addr", "_city", "_state", "_zip",
     "_postal_code", "_postal", "_contact_name", "_contact",
     "_contact_phone", "_phone", "_country", "_address_block",
     "_address_line_1", "_province"}

\* f"{prefix}{suffix}"
PrefixKey(prefix, suffix) ==
    CASE prefix = "shipper" /\ suffix = "" -> "shipper"
      [] prefix = "shipper" /\ suffix = "_name" -> "shipper_name"
      [] prefix = "shipper" /\ suffix = "_street" -> "shipper_street"
      [] prefix = "shipper" /\ suffix = "_address" -> "shipper_address"
      [] prefix = "shipper" /\ suffix = "_addr" -> "shipper_addr"
      [] prefix = "shipper" /\ suffix = "_city" -> "shipper_city"
      [] prefix = "shipper" /\ suffix = "_state" -> "shipper_state"
      [] prefix = "shipper" /\ suffix = "_zip" -> "shipper_zip"
      [] prefix = "shipper" /\ suffix = "_postal_code" -> "shipper_postal_code"
      [] prefix = "shipper" /\ suffix = "_postal" -> "shipper_postal"
      [] prefix = "shipper" /\ suffix = "_contact_name" -> "shipper_contact_name"
      [] prefix = "shipper" /\ suffix = "_contact" -> "shipper_contact"
      [] prefix = "shipper" /\ suffix = "_contact_phone" -> "shipper_contact_phone"
      [] prefix = "shipper" /\ suffix = "_phone" -> "shipper_phone"
      [] prefix = "shipper" /\ suffix = "_country" -> "shipper_country"
      [] prefix = "shipper" /\ suffix = "_address_block" -> "shipper_address_block"
      [] prefix = "shipper" /\ suffix = "_address_line_1" -> "shipper_address_line_1"
      [] prefix = "shipper" /\ suffix = "_province" -> "shipper_province"
      [] prefix = "consignee" /\ suffix = "" -> "consignee"
      [] prefix = "consignee" /\ suffix = "_name" -> "consignee_name"
      [] prefix = "consignee" /\ suffix = "_street" -> "consignee_street"
      [] prefix = "consignee" /\ suffix = "_address" -> "consignee_address"
      [] prefix = "consignee" /\ suffix = "_addr" -> "consignee_addr"
      [] prefix = "consignee" /\ suffix = "_city" -> "consignee_city"
      [] prefix = "consignee" /\ suffix = "_state" -> "consignee_state"
      [] prefix = "consignee" /\ suffix = "_zip" -> "consignee_zip"
      [] prefix = "consignee" /\ suffix = "_postal_code" -> "consignee_postal_code"
      [] prefix = "consignee" /\ suffix = "_postal" -> "consignee_postal"
      [] prefix = "consignee" /\ suffix = "_contact_name" -> "consignee_contact_name"
      [] prefix = "consignee" /\ suffix = "_contact" -> "consignee_contact"
      [] prefix = "consignee" /\ suffix = "_contact_phone" -> "consignee_contact_phone"
      [] prefix = "consignee" /\ suffix = "_phone" -> "consignee_phone"
      [] prefix = "consignee" /\ suffix = "_country" -> "consignee_country"
      [] prefix = "consignee" /\ suffix = "_address_block" -> "consignee_address_block"
      [] prefix = "consignee" /\ suffix = "_address_line_1" -> "consignee_address_line_1"
      [] prefix = "consignee" /\ suffix = "_province" -> "consignee_province"
      [] prefix = "bill_to" /\ suffix = "" -> "bill_to"
      [] prefix = "bill_to" /\ suffix = "_name" -> "bill_to_name"
      [] prefix = "bill_to" /\ suffix = "_street" -> "bill_to_street"
      [] prefix = "bill_to" /\ suffix = "_address" -> "bill_to_address"
      [] prefix = "bill_to" /\ suffix = "_addr" -> "bill_to_addr"
      [] prefix = "bill_to" /\ suffix = "_city" -> "bill_to_city"
      [] prefix = "bill_to" /\ suffix = "_state" -> "bill_to_state"
      [] prefix = "bill_to" /\ suffix = "_zip" -> "bill_to_zip"
      [] prefix = "bill_to" /\ suffix = "_postal_code" -> "bill_to_postal_code"
      [] prefix = "bill_to" /\ suffix = "_postal" -> "bill_to_postal"
      [] prefix = "bill_to" /\ suffix = "_contact_name" -> "bill_to_contact_name"
      [] prefix = "bill_to" /\ suffix = "_contact" -> "bill_to_contact"
      [] prefix = "bill_to" /\ suffix = "_contact_phone" -> "bill_to_contact_phone"
      [] prefix = "bill_to" /\ suffix = "_phone" -> "bill_to_phone"
      [] prefix = "bill_to" /\ suffix = "_country" -> "bill_to_country"
      [] prefix = "bill_to" /\ suffix = "_address_block" -> "bill_to_address_block"
      [] prefix = "bill_to" /\ suffix = "_address_line_1" -> "bill_to_address_line_1"
      [] prefix = "bill_to" /\ suffix = "_province" -> "bill_to_province"
      [] prefix = "supplier" /\ suffix = "" -> "supplier"
      [] prefix = "supplier" /\ suffix = "_name" -> "supplier_name"
      [] prefix = "supplier" /\ suffix = "_street" -> "supplier_street"
      [] prefix = "supplier" /\ suffix = "_address" -> "supplier_address"
      [] prefix = "supplier" /\ suffix = "_addr" -> "supplier_addr"
      [] prefix = "supplier" /\ suffix = "_city" -> "supplier_city"
      [] prefix = "supplier" /\ suffix = "_state" -> "supplier_state"
      [] prefix = "supplier" /\ suffix = "_zip" -> "supplier_zip"
      [] prefix = "supplier" /\ suffix = "_postal_code" -> "supplier_postal_code"
      [] prefix = "supplier" /\ suffix = "_postal" -> "supplier_postal"
      [] prefix = "supplier" /\ suffix = "_contact_name" -> "supplier_contact_name"
      [] prefix = "supplier" /\ suffix = "_contact" -> "supplier_contact"
      [] prefix = "supplier" /\ suffix = "_contact_phone" -> "supplier_contact_phone"
      [] prefix = "supplier" /\ suffix = "_phone" -> "supplier_phone"
      [] prefix = "supplier" /\ suffix = "_country" -> "supplier_country"
      [] prefix = "supplier" /\ suffix = "_address_block" -> "supplier_address_block"
      [] prefix = "supplier" /\ suffix = "_address_line_1" -> "supplier_address_line_1"
      [] prefix = "supplier" /\ suffix = "_province" -> "supplier_province"
      [] prefix = "receiver" /\ suffix = "" -> "receiver"
      [] prefix = "receiver" /\ suffix = "_name" -> "receiver_name"
      [] prefix = "receiver" /\ suffix = "_street" -> "receiver_street"
      [] prefix = "receiver" /\ suffix = "_address" -> "receiver_address"
      [] prefix = "receiver" /\ suffix = "_addr" -> "receiver_addr"
      [] prefix = "receiver" /\ suffix = "_city" -> "receiver_city"
      [] prefix = "receiver" /\ suffix = "_state" -> "receiver_state"
      [] prefix = "receiver" /\ suffix = "_zip" -> "receiver_zip"
      [] prefix = "receiver" /\ suffix = "_postal_code" -> "receiver_postal_code"
      [] prefix = "receiver" /\ suffix = "_postal" -> "receiver_postal"
      [] prefix = "receiver" /\ suffix = "_contact_name" -> "receiver_contact_name"
      [] prefix = "receiver" /\ suffix = "_contact" -> "receiver_contact"
      [] prefix = "receiver" /\ suffix = "_contact_phone" -> "receiver_contact_phone"
      [] prefix = "receiver" /\ suffix = "_phone" -> "receiver_phone"
      [] prefix = "receiver" /\ suffix = "_country" -> "receiver_country"
      [] prefix = "receiver" /\ suffix = "_address_block" -> "receiver_address_block"
      [] prefix = "receiver" /\ suffix = "_address_line_1" -> "receiver_address_line_1"
      [] prefix = "receiver" /\ suffix = "_province" -> "receiver_province"

\* Address(**{k: v for k, v in address_fields.items() if v}): the fields a
\* dictionary does not give, or gives falsy, stay None
AddressFieldNames ==
    {"name", "street", "city", "state", "postal_code", "country",
     "contact_name", "contact_phone"}

Address(address_fields) ==
    [f \in AddressFieldNames |->
        IF Truthy(Get(address_fields, f)) THEN address_fields[f] ELSE None]

\* the first key of the list that is in entities with a truthy value
RECURSIVE FirstTruthy(_, _)
FirstTruthy(entities, keys) ==
    IF keys = <<>> THEN None
    ELSE IF Truthy(Get(entities, Head(keys))) THEN entities[Head(keys)]
    ELSE FirstTruthy(entities, Tail(keys))

\* field_mappings, lines 866-874, with the f-strings of each prefix written
\* out
FieldMappings(prefix) ==
    CASE prefix = "shipper" ->
           [name |-> <<"shipper_name", "shipper">>,
            street |-> <<"shipper_street", "shipper_address", "shipper_addr">>,
            city |-> <<"shipper_city">>,
            state |-> <<"shipper_state">>,
            postal_code |-> <<"shipper_zip", "shipper_postal_code",
                              "shipper_postal">>,
            contact_name |-> <<"shipper_contact_name", "shipper_contact">>,
            contact_phone |-> <<"shipper_contact_phone", "shipper_phone">>]
      [] prefix = "consignee" ->
           [name |-> <<"consignee_name", "consignee">>,
            street |-> <<"consignee_street", "consignee_address", "consignee_addr">>,
            city |-> <<"consignee_city">>,
            state |-> <<"consignee_state">>,
            postal_code |-> <<"consignee_zip", "consignee_postal_code",
                              "consignee_postal">>,
            contact_name |-> <<"consignee_contact_name", "consignee_contact">>,
            contact_phone |-> <<"consignee_contact_phone", "consignee_phone">>]
      [] prefix = "bill_to" ->
           [name |-> <<"bill_to_name", "bill_to">>,
            street |-> <<"bill_to_street", "bill_to_address", "bill_to_addr">>,
            city |-> <<"bill_to_city">>,
            state |-> <<"bill_to_state">>,
            postal_code |-> <<"bill_to_zip", "bill_to_postal_code",
                              "bill_to_postal">>,
            contact_name |-> <<"bill_to_contact_name", "bill_to_contact">>,
            contact_phone |-> <<"bill_to_contact_phone", "bill_to_phone">>]

\* f'{prefix}_country' and f'{prefix}_address_block'
CountryKey(prefix) ==
    CASE prefix = "shipper" -> "shipper_country"
      [] prefix = "consignee" -> "consignee_country"
      [] prefix = "bill_to" -> "bill_to_country"

AddressBlockKey(prefix) ==
    CASE prefix = "shipper" -> "shipper_address_block"
      [] prefix = "consignee" -> "consignee_address_block"
      [] prefix = "bill_to" -> "bill_to_address_block"

\* d restricted to the keys whose value is kept
Restrict(d, keep) == [k \in keep |-> d[k]]

\* a merge in which the left operand wins
UpdateKeepFirst(d, e) == d @@ e

\* dict.update: the right operand wins
Update(d, e) == e @@ d

(***************************************************************************)
(* _parse_address_block.  Address text tokens: NL, SP, CM, ST (two capital *)
(* letters), ZIP (five digits, optionally -four), " - " and words.         *)
(***************************************************************************)
RECURSIVE SplitLines(_)
SplitLines(s) ==
    LET nls == {i \in 1..Len(s) : s[i] = "NL"}
    IN IF nls = {} THEN <<s>>
       ELSE <<Slice(s, 1, Min(nls) - 1)>>
            \o SplitLines(Slice(s, Min(nls) + 1, Len(s)))

\* line[i+1..] matches ,?\s+([A-Z]{2})\s+(\d{5}(?:-\d{4})?)$
CszTail(line, i) ==
    LET n == Len(line)
        j == IF i + 1 <= n /\ line[i + 1] = "CM" THEN i + 1 ELSE i
        a == RunEnd(line, j + 1, LAMBDA t : t = "SP")
        b == RunEnd(line, a + 1, LAMBDA t : t = "SP")
    IN /\ a > j + 1
       /\ a <= n /\ line[a] = "ST"
       /\ b > a + 1
       /\ b = n /\ line[b] = "ZIP"

\* ^(.+?),?\s+([A-Z]{2})\s+(\d{5}(?:-\d{4})?)$ : the lazy first group is
\* the shortest non-empty prefix after which the rest matches
CszMatch(line) ==
    LET cuts == {i \in 1..Len(line) : CszTail(line, i)}
    IN IF cuts = {} THEN [ok |-> FALSE, city |-> <<>>]
       ELSE [ok |-> TRUE, city |-> Strip(Slice(line, 1, Min(cuts)))]

ParseAddressBlock(address_text) ==
    LET lines == SplitLines(Strip(address_text))
        last_line == Strip(lines[Len(lines)])
        m == CszMatch(last_line)
        r1 == ("name" :> Strip(lines[1]))
        r2 == IF Len(lines) > 1 THEN Update(r1, "street" :> Strip(lines[2]))
              ELSE r1
    IN IF Len(lines) > 2
       THEN IF m.ok
            THEN Update(r2, ("city" :> m.city) @@ ("state" :> <<"ST">>)
                            @@ ("postal_code" :> <<"ZIP">>))
            ELSE Update(r2, "city" :> last_line)
       ELSE r2

(***************************************************************************)
(* _extract_address_from_entities (bol_document_ai.py 863-920)             *)
(***************************************************************************)
\* lines 876-881: per component, the first candidate key with a truthy value
DirectFieldsOf(entities, fm) ==
    [f \in {g \in DOMAIN fm : Truthy(FirstTruthy(entities, fm[g]))} |->
        FirstTruthy(entities, fm[f])]

DirectFields(entities, prefix) ==
    DirectFieldsOf(entities, FieldMappings(prefix))

\* lines 883-885: the country defaults to "USA"
WithCountry(address_fields, entities, prefix) ==
    IF "country" \in DOMAIN address_fields THEN address_fields
    ELSE Update(address_fields,
                "country" :> Or(Get(entities, CountryKey(prefix)),
                                <<"USA">>))

\* lines 887-890
WithAddressBlock(address_fields, entities, prefix) ==
    IF Truthy(Get(entities, AddressBlockKey(prefix)))
    THEN Update(address_fields,
                ParseAddressBlock(entities[AddressBlockKey(prefix)]))
    ELSE address_fields

\* lines 892-904
WithBillTo(address_fields, entities, prefix) ==
    LET pairs == {<<"name", "bill_to_name">>, <<"street", "bill_to_street">>,
                  <<"city", "bill_to_city">>, <<"state", "bill_to_state">>,
                  <<"postal_code", "bill_to_zip">>}
        set == {pr \in pairs : Truthy(Get(entities, pr[2]))}
        upd == [f \in {pr[1] : pr \in set} |->
                   entities[(CHOOSE pr \in set : pr[1] = f)[2]]]
    IN IF prefix = "bill_to" /\ ~Truthy(Get(address_fields, "name"))
       THEN Update(address_fields, upd)
       ELSE address_fields

\* text.split(' - ', 1)[1].strip() when ' - ' is in the text, else
\* text.strip()
AfterDash(text) ==
    LET ds == {i \in 1..Len(text) : text[i] = " - "}
    IN IF ds = {} THEN Strip(text)
       ELSE Strip(Slice(text, Min(ds) + 1, Len(text)))

\* lines 906-915
WithConsigneeName(address_fields, entities, prefix) ==
    IF /\ prefix = "consignee"
       /\ ~Truthy(Get(address_fields, "name"))
       /\ Truthy(Get(entities, "consignee_name"))
    THEN Update(address_fields, "name" :> AfterDash(entities["consignee_name"]))
    ELSE address_fields

\* any(address_fields.values())
AnyTruthy(d) == \E k \in DOMAIN d : Truthy(d[k])

\* lines 917-920
AddressOrNone(address_fields) ==
    IF AnyTruthy(address_fields) THEN Address(address_fields) ELSE NoAddress

ExtractAddressFromEntities(entities, prefix) ==
    AddressOrNone(
      WithConsigneeName(
        WithBillTo(
          WithAddressBlock(
            WithCountry(DirectFields(entities, prefix), entities, prefix),
            entities, prefix),
          entities, prefix),
        entities, prefix))

(***************************************************************************)
(* DocumentAIService._extract_address (document_ai.py 268-280)             *)
(***************************************************************************)
\* the keys _extract_address reads for a prefix
InvoiceKeys(prefix) ==
    CASE prefix = "supplier" ->
           [address |-> "supplier_address",
            address_line_1 |-> "supplier_address_line_1",
            city |-> "supplier_city", state |-> "supplier_state",
            province |-> "supplier_province",
            postal_code |-> "supplier_postal_code", zip |-> "supplier_zip",
            country |-> "supplier_country"]
      [] prefix = "receiver" ->
           [address |-> "receiver_address",
            address_line_1 |-> "receiver_address_line_1",
            city |-> "receiver_city", state |-> "receiver_state",
            province |-> "receiver_province",
            postal_code |-> "receiver_postal_code", zip |-> "receiver_zip",
            country |-> "receiver_country"]

InvoiceAddressFields(entities, keys) ==
       ("street" :> Or(Get(entities, keys.address),
                       Get(entities, keys.address_line_1)))
    @@ ("city" :> Get(entities, keys.city))
    @@ ("state" :> Or(Get(entities, keys.state),
                      Get(entities, keys.province)))
    @@ ("postal_code" :> Or(Get(entities, keys.postal_code),
                            Get(entities, keys.zip)))
    @@ ("country" :> Get(entities, keys.country))

ExtractAddress(entities, prefix) ==
    AddressOrNone(InvoiceAddressFields(entities, InvoiceKeys(prefix)))

(***************************************************************************)
(* SpecAddr: the address assemblers applied to one EntityMap.              *)
(***************************************************************************)
AddrBlock3 == <<"Acme", "NL", "12 Main St", "NL",
                "Chino", "CM", "SP", "ST", "SP", "ZIP">>

AddrValues == {None, <<>>, <<"Acme">>, <<"58", " - ", "Omaha">>, AddrBlock3}

AddrKeys(prefix) == {PrefixKey(prefix, suffix) : suffix \in AddressSuffixes}

InitAddr ==
    /\ \E prefix \in AddressPrefixes \cup InvoicePrefixes :
         \E entities \in DictsUpTo(AddrKeys(prefix), AddrValues, MaxAddrKeys) :
            addr_in = [entities |-> entities, prefix |-> prefix]
    /\ addr_call = "none"
    /\ addr_out = NoAddress
    /\ IdleItems
    /\ IdleConf
    /\ IdleDoc
    /\ IdleValid
    /\ IdleParse
    /\ IdleInvoice
    /\ IdleMap
    /\ IdleTerms
    /\ IdleCtor
    /\ IdleConc
    /\ IdleSect
    /\ IdleMulti
    /\ IdleBatch
    /\ IdleDisc

\* extract_bol_data lines 179-181, extract_multiple_bols lines 127-128
RunExtractAddressFromEntities ==
    /\ addr_call = "none"
    /\ addr_in.prefix \in AddressPrefixes
    /\ addr_call' = "bol"
    /\ addr_out' = ExtractAddressFromEntities(addr_in.entities, addr_in.prefix)
    /\ UNCHANGED <<addr_in, itemVars, confVars, docVars,
                 valVars,
                 scalarVars,
                 invVars,
                 mapVars,
                 termsVars,
                 ctorVars,
                 concVars,
                 sectVars,
                 multiVars,
                 batchVars,
                 discVars>>

\* extract_invoice_data lines 126, 132
RunExtractAddress ==
    /\ addr_call = "none"
    /\ addr_in.prefix \in InvoicePrefixes
    /\ addr_call' = "invoice"
    /\ addr_out' = ExtractAddress(addr_in.entities, addr_in.prefix)
    /\ UNCHANGED <<addr_in, itemVars, confVars, docVars,
                 valVars,
                 scalarVars,
                 invVars,
                 mapVars,
                 termsVars,
                 ctorVars,
                 concVars,
                 sectVars,
                 multiVars,
                 batchVars,
                 discVars>>

NextAddr == RunExtractAddressFromEntities \/ RunExtractAddress

SpecAddr == InitAddr /\ [][NextAddr]_vars

(***************************************************************************)
(* Confidence scorer (_calculate_confidence_scores, bol_document_ai.py     *)
(* 1008-1021 and document_ai.py 342-355).  A confidence is a whole number  *)
(* of tenths; a score of the returned map is the exact fraction            *)
(* [num, den] of tenths, so that the mean loses nothing.                   *)
(***************************************************************************)
Frac(n, d) == [num |-> n, den |-> d]

FracEq(a, b) == a.num * b.den = b.num * a.den

RECURSIVE SumOver(_, _)
SumOver(f, S) ==
    IF S = {} THEN 0
    ELSE LET k == CHOOSE x \in S : TRUE
         IN f[k] + SumOver(f, S \ {k})

\* lines 1011-1014: scores[entity_type] = entity.confidence for the entities
\* with a truthy confidence, a later entity of a type overwriting an earlier
EntityScores(entities) ==
    LET scored == {i \in 1..Len(entities) : entities[i].confidence # 0}
        keys == {LowerUnderscore(entities[i].type_) : i \in scored}
    IN [k \in keys |->
          entities[Max({i \in scored :
                          LowerUnderscore(entities[i].type_) = k})].confidence]

\* lines 1016-1019: "overall" is written into the same map
WithOverall(scores) ==
    LET overall == IF DOMAIN scores # {}
                   THEN Frac(SumOver(scores, DOMAIN scores),
                             Cardinality(DOMAIN scores))
                   ELSE Frac(0, 1)
    IN [k \in DOMAIN scores \cup {"overall"} |->
          IF k = "overall" THEN overall ELSE Frac(scores[k], 1)]

CalculateConfidenceScores(entities) == WithOverall(EntityScores(entities))

\* DocumentAIService._calculate_confidence_scores: the same statements
InvoiceCalculateConfidenceScores(entities) ==
    LET scored == {i \in 1..Len(entities) : entities[i].confidence # 0}
        keys == {LowerUnderscore(entities[i].type_) : i \in scored}
        scores == [k \in keys |->
                     entities[Max({i \in scored :
                          LowerUnderscore(entities[i].type_) = k})].confidence]
        overall == IF keys # {}
                   THEN Frac(SumOver(scores, keys), Cardinality(keys))
                   ELSE Frac(0, 1)
    IN [k \in keys \cup {"overall"} |->
          IF k = "overall" THEN overall ELSE Frac(scores[k], 1)]

(***************************************************************************)
(* SpecConf: the scorers applied to one entity list.                       *)
(***************************************************************************)
ConfTypes == {"BOL_Number", "Carrier Name", "Overall"}

\* 0 is the unset confidence of an entity; 7 and 9 stand for 0.7 and 0.9
ConfValues == {0, 7, 9}

ConfEntities ==
    {Entity(t, <<>>, c, <<>>) : t \in ConfTypes, c \in ConfValues}

InitConf ==
    /\ conf_in \in SeqsUpTo(ConfEntities, MaxConfEntities)
    /\ conf_call = "none"
    /\ conf_out = <<>>
    /\ IdleItems
    /\ IdleAddr
    /\ IdleDoc
    /\ IdleValid
    /\ IdleParse
    /\ IdleInvoice
    /\ IdleMap
    /\ IdleTerms
    /\ IdleCtor
    /\ IdleConc
    /\ IdleSect
    /\ IdleMulti
    /\ IdleBatch
    /\ IdleDisc

\* extract_bol_data line 168
RunCalculateConfidenceScores ==
    /\ conf_call = "none"
    /\ conf_call' = "bol"
    /\ conf_out' = CalculateConfidenceScores(conf_in)
    /\ UNCHANGED <<conf_in, itemVars, addrVars, docVars,
                 valVars,
                 scalarVars,
                 invVars,
                 mapVars,
                 termsVars,
                 ctorVars,
                 concVars,
                 sectVars,
                 multiVars,
                 batchVars,
                 discVars>>

\* extract_invoice_data line 117
RunInvoiceCalculateConfidenceScores ==
    /\ conf_call = "none"
    /\ conf_call' = "invoice"
    /\ conf_out' = InvoiceCalculateConfidenceScores(conf_in)
    /\ UNCHANGED <<conf_in, itemVars, addrVars, docVars,
                 valVars,
                 scalarVars,
                 invVars,
                 mapVars,
                 termsVars,
                 ctorVars,
                 concVars,
                 sectVars,
                 multiVars,
                 batchVars,
                 discVars>>

NextConf == RunCalculateConfidenceScores \/ RunInvoiceCalculateConfidenceScores

SpecConf == InitConf /\ [][NextConf]_vars

(***************************************************************************)
(* Document text tokens (the raw text of SpecDoc)                          *)
(*   "BOL #"                the label BOL\s*#                              *)
(*   "7"                    a digit                                        *)
(*   "NL"                   "\n", the only blank among these tokens        *)
(*   "SHIPPER INFORMATION"  the section heading of the shipper fallback    *)
(*   "Acme"                 a word                                         *)
(*   "Shipper Name"         a form label                                   *)
(* The other patterns of _extract_from_text need a literal these tokens do *)
(* not spell (PRO, NAME OF CARRIER, "/", ORIGIN:, CONSIGNEE:, Scheels,     *)
(* FREIGHT CHARGES:, SEND FREIGHT BILL TO:, lbs, Pallets, Special          *)
(* Instructions, BILLING ID, CUSTOMER PO, CUSTOM ID) or, for the contact   *)
(* patterns, ten digits after two words and a blank.                       *)
(***************************************************************************)
DocTokens ==
    {"BOL #", "7", "NL", "SHIPPER INFORMATION", "Acme", "Shipper Name"}

IsDigit(t) == t = "7"           \* [\d]
IsNewline(t) == t = "NL"        \* \n, and so \s and [\s\n] on these tokens
NotNewline(t) == t # "NL"       \* [^\n]

\* the members of a set of numbers in ascending order
RECURSIVE SortedSeq(_)
SortedSeq(S) ==
    IF S = {} THEN <<>> ELSE <<Min(S)>> \o SortedSeq(S \ {Min(S)})

NoGroup == [found |-> FALSE, group |-> <<>>]

\* r'BOL\s*#\s*\n\s*([\d]+)' (newline TRUE) and r'BOL\s*#\s*([\d]+)'
\* (newline FALSE) tried at token i
BolMatchAt(text, i, newline) ==
    IF text[i] # "BOL #" THEN NoGroup
    ELSE LET j == RunEnd(text, i + 1, IsNewline)
             k == RunEnd(text, j, IsDigit)
         IN IF k > j /\ (newline => j > i + 1)
            THEN [found |-> TRUE, group |-> Slice(text, j, k - 1)]
            ELSE NoGroup

BolSearch(text, newline) ==
    LET hits == {i \in 1..Len(text) : BolMatchAt(text, i, newline).found}
    IN IF hits = {} THEN NoGroup ELSE BolMatchAt(text, Min(hits), newline)

\* lines 334-342: the first pattern of bol_patterns that matches
BolNumberFromText(text) ==
    LET m1 == BolSearch(text, TRUE)
        m2 == BolSearch(text, FALSE)
    IN IF m1.found THEN "bol_number" :> m1.group
       ELSE IF m2.found THEN "bol_number" :> m2.group
       ELSE <<>>

\* r'SHIPPER INFORMATION[\s\n]+(?:CONSIGNEE INFORMATION[\s\n]+)?([^\n]+)'
\* tried at token i
ShipperSectionAt(text, i) ==
    IF text[i] # "SHIPPER INFORMATION" THEN NoGroup
    ELSE LET j == RunEnd(text, i + 1, IsNewline)
             k == RunEnd(text, j, NotNewline)
         IN IF j > i + 1 /\ k > j
            THEN [found |-> TRUE, group |-> Slice(text, j, k - 1)]
            ELSE NoGroup

ShipperSectionSearch(text) ==
    LET hits == {i \in 1..Len(text) : ShipperSectionAt(text, i).found}
    IN IF hits = {} THEN NoGroup ELSE ShipperSectionAt(text, Min(hits))

\* lines 384-417: the ORIGIN: section never matches these tokens, the
\* SHIPPER INFORMATION fallback gives the rest of the next line
ShipperFromText(text) ==
    LET shipper_section == ShipperSectionSearch(text)
        shipper_name == Strip(shipper_section.group)
    IN IF shipper_section.found /\ shipper_name # <<>>
       THEN "shipper_name" :> shipper_name
       ELSE <<>>

\* _extract_from_text: an EntityMap from the raw text alone
ExtractFromText(text) == ShipperFromText(text) @@ BolNumberFromText(text)

\* lines 672-674: the matches of r'BOL\s*#\s*([\d]+)' in the text, as the
\* tokens they start at, in text order (two matches never overlap)
BolMatches(text) ==
    SortedSeq({i \in 1..Len(text) : BolMatchAt(text, i, FALSE).found})

\* every section running to the end of the text
BolSectionToEnd(text, bol_matches, n) ==
    [text |-> Slice(text, bol_matches[n], Len(text)),
     bol_number |-> BolMatchAt(text, bol_matches[n], FALSE).group,
     position |-> bol_matches[n] - 1]

\* lines 681-695: the section of the n-th match runs to the next match or
\* to the end of the text (position counts from 0)
BolSection(text, bol_matches, n) ==
    [text |-> Slice(text, bol_matches[n],
                    IF n < Len(bol_matches) THEN bol_matches[n + 1] - 1
                    ELSE Len(text)),
     bol_number |-> BolMatchAt(text, bol_matches[n], FALSE).group,
     position |-> bol_matches[n] - 1]

SectionsOf(text, bol_matches) ==
    IF Len(bol_matches) <= 1
    THEN <<[text |-> text,
            bol_number |-> IF bol_matches # <<>>
                           THEN BolMatchAt(text, bol_matches[1], FALSE).group
                           ELSE None]>>
    ELSE [n \in 1..Len(bol_matches) |-> BolSection(text, bol_matches, n)]

\* _detect_multiple_bols
DetectMultipleBols(text) == SectionsOf(text, BolMatches(text))

\* lines 724-730: r'SHIPPER INFORMATION[\s\n]+([^\n]+)'; the tokens spell
\* neither CONSIGNEE nor ORIGIN:
SectionShipper(shipper_match) ==
    IF shipper_match.found
    THEN "shipper_name" :> Strip(shipper_match.group)
    ELSE <<>>

\* _extract_from_text_section: the other patterns need a literal these
\* tokens do not spell
ExtractFromTextSection(text, bol_number) ==
    SectionShipper(ShipperSectionSearch(text)) @@ ("bol_number" :> bol_number)

(***************************************************************************)
(* Text anchors.  A text anchor is [text_segments]; a segment is           *)
(* [start_index, end_index], offsets into the document text counted in     *)
(* tokens.  An unset anchor is the anchor without segments (an empty       *)
(* message, falsy).                                                        *)
(***************************************************************************)
NoAnchor == [text_segments |-> <<>>]

Anchor(start, end) ==
    [text_segments |-> <<[start_index |-> start, end_index |-> end]>>]

\* full_text[start:end]
PySlice(s, start, end) ==
    Slice(s, start + 1, IF end > Len(s) THEN Len(s) ELSE end)

\* start/end of a segment: a zero end_index reads as the end of the text
RECURSIVE SegmentsText(_, _)
SegmentsText(full_text, segments) ==
    IF segments = <<>> THEN <<>>
    ELSE LET segment == Head(segments)
             start == segment.start_index
             end == IF segment.end_index # 0 THEN segment.end_index
                    ELSE Len(full_text)
         IN PySlice(full_text, start, end)
              \o SegmentsText(full_text, Tail(segments))

GetTextFromAnchor(full_text, text_anchor) ==
    IF text_anchor.text_segments = <<>> THEN <<>>
    ELSE Strip(SegmentsText(full_text, text_anchor.text_segments))

GetPageText(document, page) ==
    IF page.layout.text_anchor.text_segments = <<>> THEN <<>>
    ELSE SegmentsText(document.text, page.layout.text_anchor.text_segments)

(***************************************************************************)
(* _map_form_field_to_entity.  Substrings gives, of the substrings the     *)
(* mapper looks for, those the lower-cased token holds.                    *)
(***************************************************************************)
Contained(lower) ==
    CASE lower \in {"shipper", "shipper information"} -> {"shipper", "ship"}
      [] lower = "shipper name" -> {"shipper", "ship", "name"}
      [] OTHER -> {lower}

\* the substrings looked for in field_name, not in field_name.lower()
SubstringsCaseSensitive(t) == Contained(t)

\* line 288: field_lower = field_name.lower().strip()
Substrings(t) == Contained(Lower(t))

\* 'sub' in field_lower
Has(field_name, sub) ==
    \E i \in 1..Len(field_name) : sub \in Substrings(field_name[i])

NoKey == "<None>"

MapFormFieldToEntity(field_name) ==
    IF Has(field_name, "bol #") \/ Has(field_name, "bol#")
       \/ Has(field_name, "bill of lading") THEN "bol_number"
    ELSE IF Has(field_name, "pro #") \/ Has(field_name, "pro#")
       \/ Has(field_name, "pro number") THEN "pro_number"
    ELSE IF Has(field_name, "carrier") /\ Has(field_name, "name")
    THEN "carrier_name"
    ELSE IF Has(field_name, "shipper")
    THEN IF Has(field_name, "name") THEN "shipper_name"
         ELSE IF Has(field_name, "address") THEN "shipper_address"
         ELSE "shipper"
    ELSE IF Has(field_name, "consignee")
    THEN IF Has(field_name, "name") THEN "consignee_name"
         ELSE IF Has(field_name, "address") THEN "consignee_address"
         ELSE "consignee"
    ELSE IF Has(field_name, "date")
    THEN IF Has(field_name, "ship") \/ Has(field_name, "pickup")
         THEN "ship_date"
         ELSE IF Has(field_name, "delivery") THEN "delivery_date"
         ELSE "date"
    ELSE IF Has(field_name, "weight")
    THEN IF Has(field_name, "total") THEN "total_weight" ELSE "weight"
    ELSE IF Has(field_name, "freight charge") THEN "freight_charge_terms"
    ELSE NoKey

(***************************************************************************)
(* Form fields.  A form field is [field_name, field_value], two anchors.   *)
(***************************************************************************)
\* lines 232-247 and 570-583: entities[mapped_name] = field_value.strip()
\* for every field with a name the mapper knows, a later field of a key
\* overwriting an earlier one
WithMappedField(entities, mapped_name, field_value) ==
    IF mapped_name # NoKey
    THEN Update(entities, mapped_name :> Strip(field_value))
    ELSE entities

WithFormField(entities, field_name, field_value) ==
    IF field_name # <<>>
    THEN WithMappedField(entities, MapFormFieldToEntity(field_name),
                         field_value)
    ELSE entities

RECURSIVE FormFieldEntities(_, _, _)
FormFieldEntities(full_text, form_fields, entities) ==
    IF form_fields = <<>> THEN entities
    ELSE FormFieldEntities(full_text, Tail(form_fields),
           WithFormField(entities,
              GetTextFromAnchor(full_text, Head(form_fields).field_name),
              GetTextFromAnchor(full_text, Head(form_fields).field_value)))

\* _extract_entities_from_page
ExtractEntitiesFromPage(page, full_text) ==
    FormFieldEntities(full_text, page.form_fields, <<>>)

\* lines 230-247: the form fields of every page, in page order
RECURSIVE FormFieldsOfPages(_)
FormFieldsOfPages(pages) ==
    IF pages = <<>> THEN <<>>
    ELSE Head(pages).form_fields \o FormFieldsOfPages(Tail(pages))

(***************************************************************************)
(* Structured entities of the document (lines 250-265).  An entity of a    *)
(* document is [type_, mention_text, anchor, confidence, properties]       *)
(* (anchor: text_anchor.content, or None without a text anchor).           *)
(***************************************************************************)
\* f"{entity_type}_{prop_type}" on the type tags of the vocabulary
PropKey(entity_type, prop_type) ==
    CASE entity_type = "shipper" /\ prop_type = "name" -> "shipper_name"
      [] entity_type = "line_item" /\ prop_type = "description"
           -> "line_item_description"
      [] OTHER -> "other_property"

RECURSIVE PropertyEntities(_, _, _)
PropertyEntities(entity_type, props, entities) ==
    IF props = <<>> THEN entities
    ELSE LET prop == Head(props)
             prop_type == PropKey(entity_type, LowerUnderscore(prop.type_))
             next == IF Truthy(prop.mention_text)
                     THEN Update(entities, prop_type :> prop.mention_text)
                     ELSE IF prop.anchor # None
                     THEN Update(entities, prop_type :> prop.anchor)
                     ELSE entities
         IN PropertyEntities(entity_type, Tail(props), next)

RECURSIVE StructuredEntities(_, _)
StructuredEntities(ents, entities) ==
    IF ents = <<>> THEN entities
    ELSE LET entity == Head(ents)
             entity_type == LowerUnderscore(entity.type_)
             value == IF Truthy(entity.mention_text) THEN entity.mention_text
                      ELSE entity.anchor
             own == Update(entities, entity_type :> value)
         IN StructuredEntities(Tail(ents),
               PropertyEntities(entity_type, entity.properties, own))

(***************************************************************************)
(* _extract_entities: the cascade of the whole document.  The result is    *)
(* [entities, attempts]; attempts lists, in the order they ran, the steps  *)
(* as [step, wrote] (wrote: the EntityMap the step produced).              *)
(***************************************************************************)
Attempt(step, wrote) == [step |-> step, wrote |-> wrote]

\* lines 227-247: the form fields are always gone through
FormStep(form) ==
    [entities |-> form, attempts |-> <<Attempt("form_fields", form)>>]

\* a later step fills the EntityMap the earlier steps left empty
LaterStep(cascade, step, wrote) ==
    [entities |-> wrote,
     attempts |-> Append(cascade.attempts, Attempt(step, wrote))]

\* lines 250-265
WithStructuredEntities(document, cascade) ==
    IF DOMAIN cascade.entities = {} /\ document.entities # <<>>
    THEN LaterStep(cascade, "entities",
                   StructuredEntities(document.entities, <<>>))
    ELSE cascade

\* lines 268-269
WithRawText(document, cascade) ==
    IF DOMAIN cascade.entities = {} /\ document.text # <<>>
    THEN LaterStep(cascade, "text", ExtractFromText(document.text))
    ELSE cascade

\* the raw-text step without the test that the EntityMap is still empty
WithRawTextAlways(document, cascade) ==
    IF document.text # <<>>
    THEN LaterStep(cascade, "text", ExtractFromText(document.text))
    ELSE cascade

ExtractEntitiesAlwaysText(document) ==
    WithRawTextAlways(document,
      WithStructuredEntities(document,
        FormStep(FormFieldEntities(document.text,
                                   FormFieldsOfPages(document.pages), <<>>))))

ExtractEntities(document) ==
    WithRawText(document,
      WithStructuredEntities(document,
        FormStep(FormFieldEntities(document.text,
                                   FormFieldsOfPages(document.pages), <<>>))))

(***************************************************************************)
(* Records.  BOLData gives the fields a constructor call leaves out their  *)
(* defaults (models/bol.py); the fields kept are those the tokens of the   *)
(* raw text and the entities of the vocabulary can fill.                   *)
(***************************************************************************)
BOLData(fields) ==
    fields @@ [bol_number |-> None, shipper |-> NoAddress,
               consignee |-> NoAddress, bill_to |-> NoAddress,
               shipment_items |-> <<>>, confidence_scores |-> <<>>,
               raw_text |-> None, metadata |-> <<>>]

\* f"{document_id}-{page_num+1:03d}"
DigitOf(d) ==
    CASE d = 0 -> "0" [] d = 1 -> "1" [] d = 2 -> "2" [] d = 3 -> "3"
      [] d = 4 -> "4" [] d = 5 -> "5" [] d = 6 -> "6" [] d = 7 -> "7"
      [] d = 8 -> "8" [] d = 9 -> "9"

RECURSIVE DecimalDigits(_)
DecimalDigits(n) ==
    IF n < 10 THEN <<DigitOf(n)>>
    ELSE Append(DecimalDigits(n \div 10), DigitOf(n % 10))

\* f"{n:03d}": the decimal digits, zero-filled on the left to three
Format03d(n) ==
    IF n < 10 THEN <<"0", "0">> \o DecimalDigits(n)
    ELSE IF n < 100 THEN <<"0">> \o DecimalDigits(n)
    ELSE DecimalDigits(n)

\* every page of the document under the identifier of the document
PageBolIdUnnumbered(document_id, page_num) == <<document_id>>

PageBolId(document_id, page_num) ==
    <<document_id, "-">> \o Format03d(page_num + 1)

\* a line of the trace of an entry point: one record built, whether from a
\* page or from the whole document
TraceLine(scope, page_number, cascade, accepted, record) ==
    [scope |-> scope, page_number |-> page_number,
     entities |-> cascade.entities, attempts |-> cascade.attempts,
     accepted |-> accepted, record |-> record]

\* lines 170-218: the record from the three locals of extract_bol_data
AssembleBolData(document, bol_id, entities, shipment_items, confidence_scores) ==
    BOLData(
      [bol_id |-> bol_id,
       bol_number |-> Or(Get(entities, "bol_number"),
                         Get(entities, "bill_of_lading_number")),
       shipper |-> ExtractAddressFromEntities(entities, "shipper"),
       consignee |-> ExtractAddressFromEntities(entities, "consignee"),
       bill_to |-> ExtractAddressFromEntities(entities, "bill_to"),
       shipment_items |-> shipment_items,
       confidence_scores |-> confidence_scores,
       raw_text |-> document.text,
       metadata |-> [page_count |-> Len(document.pages)]])

\* lines 166-218
BuildBolData(document, bol_id, entities) ==
    AssembleBolData(document, bol_id, entities,
                    ExtractShipmentItems(document).items,
                    CalculateConfidenceScores(document.entities))

\* extract_bol_data
ExtractBolData(document, bol_id) ==
    BuildBolData(document, bol_id, ExtractEntities(document).entities)

DocumentTrace(document, bol_id) ==
    TraceLine("document", 0, ExtractEntities(document), TRUE,
              ExtractBolData(document, bol_id))

\* lines 113-116: the form fields of the page merged over the raw text
WithPageFormFields(from_text, page_entities) ==
    [entities |-> Update(from_text, page_entities),
     attempts |-> <<Attempt("text", from_text),
                    Attempt("form_fields", page_entities)>>]

RawTextStep(from_text) ==
    [entities |-> from_text, attempts |-> <<Attempt("text", from_text)>>]

\* lines 106-116: the raw text of the page first, always
PageEntities(document, page) ==
    IF page.form_fields # <<>>
    THEN WithPageFormFields(ExtractFromText(GetPageText(document, page)),
                            ExtractEntitiesFromPage(page, document.text))
    ELSE RawTextStep(ExtractFromText(GetPageText(document, page)))

\* lines 122-141
BuildPageBolData(document, document_id, page_num, page_text, entities) ==
    BOLData(
      [bol_id |-> PageBolId(document_id, page_num),
       bol_number |-> Get(entities, "bol_number"),
       shipper |-> ExtractAddressFromEntities(entities, "shipper"),
       consignee |-> ExtractAddressFromEntities(entities, "consignee"),
       shipment_items |->
           ExtractItemsFromPage(document.pages[page_num + 1].tables,
                                page_text).items,
       raw_text |-> page_text,
       metadata |-> [page_number |-> page_num + 1,
                     total_pages |-> Len(document.pages)]])

\* lines 104-141: the record of one page (page_num counts from 0)
PageBolData(document, document_id, page_num) ==
    BuildPageBolData(document, document_id, page_num,
        GetPageText(document, document.pages[page_num + 1]),
        PageEntities(document, document.pages[page_num + 1]).entities)

\* line 144
PageAccepted(bol_data) ==
    \/ Truthy(bol_data.bol_number)
    \/ bol_data.shipper # NoAddress
    \/ bol_data.consignee # NoAddress

PageLine(page_num, cascade, bol_data) ==
    TraceLine("page", page_num + 1, cascade, PageAccepted(bol_data), bol_data)

\* lines 102-147: one trace line per page, from page_num on
RECURSIVE PageTrace(_, _, _)
PageTrace(document, document_id, page_num) ==
    IF page_num >= Len(document.pages) THEN <<>>
    ELSE <<PageLine(page_num,
                    PageEntities(document, document.pages[page_num + 1]),
                    PageBolData(document, document_id, page_num))>>
           \o PageTrace(document, document_id, page_num + 1)

\* bol_data_list: the records of the accepted pages, in page order
RECURSIVE AcceptedRecords(_)
AcceptedRecords(trace) ==
    IF trace = <<>> THEN <<>>
    ELSE (IF Head(trace).accepted THEN <<Head(trace).record>> ELSE <<>>)
           \o AcceptedRecords(Tail(trace))

\* the accepted pages alone
SplitOnly(visited) ==
    [records |-> AcceptedRecords(visited), trace |-> visited]

\* no record of the whole document when no page was accepted
FallBackToNothing(visited, whole) ==
    [records |-> AcceptedRecords(visited), trace |-> visited \o <<whole>>]

\* lines 97-98 and 151-152: the whole document as the one record
FallBack(visited, whole) ==
    [records |-> <<whole.record>>, trace |-> visited \o <<whole>>]

\* the splitter without its two fallbacks to the whole document
ExtractMultipleBolsNoFallback(document, document_id) ==
    SplitOnly(PageTrace(document, document_id, 0))

\* lines 97-98 and 149-154
SplitOrFallBack(document, visited, whole) ==
    IF document.pages = <<>>
    THEN FallBack(<<>>, whole)
    ELSE IF AcceptedRecords(visited) = <<>>
    THEN FallBack(visited, whole)
    ELSE SplitOnly(visited)

\* extract_multiple_bols, lines 93-154
ExtractMultipleBols(document, document_id) ==
    SplitOrFallBack(document, PageTrace(document, document_id, 0),
                    DocumentTrace(document, <<document_id>>))

(***************************************************************************)
(* SpecDoc: the two entry points applied to one analysed document.  A      *)
(* document is drawn as a sequence of text tokens and marks: "<BREAK>"     *)
(* ends a page, "<FIELD>" makes the next token the name of a form field    *)
(* and the token after it, when the page has one, its value.  An unpaged   *)
(* document has text and no page.                                          *)
(***************************************************************************)
DocMarks == {"<BREAK>", "<FIELD>"}

DocumentId == "doc"

ValidDraft(draft, paged) ==
    /\ ~paged => \A i \in 1..Len(draft) : draft[i] \in DocTokens
    /\ \A i \in 1..Len(draft) :
          draft[i] = "<FIELD>"
            => i < Len(draft) /\ draft[i + 1] \in DocTokens

\* the number of text tokens among the first i - 1 items
TextBefore(draft, i) ==
    Cardinality({j \in 1..(i - 1) : draft[j] \in DocTokens})

DraftText(draft) == SelectSeq(draft, LAMBDA t : t \in DocTokens)

\* the page drawn by the items lo..hi of the draft
DraftPage(draft, lo, hi) ==
    LET start == TextBefore(draft, lo)
        end == TextBefore(draft, hi + 1)
        marks == SortedSeq({i \in lo..hi : draft[i] = "<FIELD>"})
        Field(i) ==
            [field_name |-> Anchor(TextBefore(draft, i + 1),
                                   TextBefore(draft, i + 1) + 1),
             field_value |->
                 IF i + 2 <= hi /\ draft[i + 2] \in DocTokens
                 THEN Anchor(TextBefore(draft, i + 2),
                             TextBefore(draft, i + 2) + 1)
                 ELSE NoAnchor]
    IN [layout |-> [text_anchor |->
                      IF end > start THEN Anchor(start, end) ELSE NoAnchor],
        form_fields |-> [n \in 1..Len(marks) |-> Field(marks[n])],
        tables |-> <<>>]

DraftPages(draft) ==
    LET breaks == SortedSeq({i \in 1..Len(draft) : draft[i] = "<BREAK>"})
        n == Len(breaks)
        Lo(k) == IF k = 1 THEN 1 ELSE breaks[k - 1] + 1
        Hi(k) == IF k = n + 1 THEN Len(draft) ELSE breaks[k] - 1
    IN [k \in 1..(n + 1) |-> DraftPage(draft, Lo(k), Hi(k))]

DocEntity(t, mention, anchor, confidence, props) ==
    [type_ |-> t, mention_text |-> mention, anchor |-> anchor,
     confidence |-> confidence, properties |-> props]

DocEntityChoices ==
    { <<>>,
      <<DocEntity("BOL_Number", <<"7">>, None, 9, <<>>)>>,
      <<DocEntity("Overall", <<>>, None, 7, <<>>),
        DocEntity("shipper", <<>>, <<"Acme">>, 0,
                  <<Prop("name", <<"Acme">>, None)>>)>> }

Document(draft, paged, entities) ==
    [text |-> DraftText(draft),
     pages |-> IF paged THEN DraftPages(draft) ELSE <<>>,
     entities |-> entities]

InitDoc ==
    /\ \E draft \in SeqsUpTo(DocTokens \cup DocMarks, MaxDocLen) :
         \E paged \in BOOLEAN :
           \E entities \in DocEntityChoices :
              /\ ValidDraft(draft, paged)
              /\ doc_in = Document(draft, paged, entities)
    /\ doc_call = "none"
    /\ doc_out = [records |-> <<>>, trace |-> <<>>]
    /\ IdleItems
    /\ IdleAddr
    /\ IdleConf
    /\ IdleValid
    /\ IdleParse
    /\ IdleInvoice
    /\ IdleMap
    /\ IdleTerms
    /\ IdleCtor
    /\ IdleConc
    /\ IdleSect
    /\ IdleMulti
    /\ IdleBatch
    /\ IdleDisc

\* parse_bol: the single-record path
RunExtractBolData ==
    /\ doc_call = "none"
    /\ doc_call' = "single"
    /\ doc_out' = FallBack(<<>>, DocumentTrace(doc_in, <<DocumentId>>))
    /\ UNCHANGED <<doc_in, itemVars, addrVars, confVars,
                 valVars,
                 scalarVars,
                 invVars,
                 mapVars,
                 termsVars,
                 ctorVars,
                 concVars,
                 sectVars,
                 multiVars,
                 batchVars,
                 discVars>>

\* parse_bol_multi: the page-split path
RunExtractMultipleBols ==
    /\ doc_call = "none"
    /\ doc_call' = "multi"
    /\ doc_out' = ExtractMultipleBols(doc_in, DocumentId)
    /\ UNCHANGED <<doc_in, itemVars, addrVars, confVars,
                 valVars,
                 scalarVars,
                 invVars,
                 mapVars,
                 termsVars,
                 ctorVars,
                 concVars,
                 sectVars,
                 multiVars,
                 batchVars,
                 discVars>>

NextDoc == RunExtractBolData \/ RunExtractMultipleBols

SpecDoc == InitDoc /\ [][NextDoc]_vars

(***************************************************************************)
(* SpecMap: _map_form_field_to_entity applied to one label.  A label is a  *)
(* sequence of words, some in several letter cases; no substring the       *)
(* mapper looks for runs across two words.  MappingRules is the if/elif    *)
(* chain of lines 291-324 read as a table, one row per way to reach a      *)
(* return: the substrings that must all occur, and the key returned.       *)
(***************************************************************************)
MaxLabelLen == 3

LabelWords ==
    {"BOL #", "bol#", "Bill of Lading", "PRO #", "pro#", "Pro Number",
     "Carrier", "Shipper", "SHIPPER", "Consignee", "Name", "NAME",
     "Address", "Date", "Ship", "Pickup", "Delivery", "Weight", "Total",
     "Freight Charge", "Acme"}

Rule(all, key) == [all |-> all, key |-> key]

MappingRules ==
    << Rule({"bol #"}, "bol_number"),
       Rule({"bol#"}, "bol_number"),
       Rule({"bill of lading"}, "bol_number"),
       Rule({"pro #"}, "pro_number"),
       Rule({"pro#"}, "pro_number"),
       Rule({"pro number"}, "pro_number"),
       Rule({"carrier", "name"}, "carrier_name"),
       Rule({"shipper", "name"}, "shipper_name"),
       Rule({"shipper", "address"}, "shipper_address"),
       Rule({"shipper"}, "shipper"),
       Rule({"consignee", "name"}, "consignee_name"),
       Rule({"consignee", "address"}, "consignee_address"),
       Rule({"consignee"}, "consignee"),
       Rule({"date", "ship"}, "ship_date"),
       Rule({"date", "pickup"}, "ship_date"),
       Rule({"date", "delivery"}, "delivery_date"),
       Rule({"date"}, "date"),
       Rule({"weight", "total"}, "total_weight"),
       Rule({"weight"}, "weight"),
       Rule({"freight charge"}, "freight_charge_terms") >>

\* field_name.lower(), word by word
LowerLabel(label) == [i \in 1..Len(label) |-> Lower(label[i])]

\* the substrings of the table that occur in a label taken as it is
Occurring(label) == UNION {Contained(label[i]) : i \in 1..Len(label)}

Matches(rule, label) == rule.all \subseteq Occurring(label)

\* the key of the first rule of the table, from rule k on, that matches
RECURSIVE FirstRule(_, _)
FirstRule(label, k) ==
    IF k > Len(MappingRules) THEN NoKey
    ELSE IF Matches(MappingRules[k], label) THEN MappingRules[k].key
    ELSE FirstRule(label, k + 1)

InitMap ==
    /\ \E n \in 0..MaxLabelLen : map_in \in [1..n -> LabelWords]
    /\ map_call = "none"
    /\ map_out = "not called"
    /\ IdleItems
    /\ IdleAddr
    /\ IdleConf
    /\ IdleDoc
    /\ IdleValid
    /\ IdleParse
    /\ IdleInvoice
    /\ IdleTerms
    /\ IdleCtor
    /\ IdleConc
    /\ IdleSect
    /\ IdleMulti
    /\ IdleBatch
    /\ IdleDisc

\* lines 245 and 581: mapped_name = self._map_form_field_to_entity(field_name)
RunMapFormFieldToEntity ==
    /\ map_call = "none"
    /\ map_call' = "_map_form_field_to_entity"
    /\ map_out' = MapFormFieldToEntity(map_in)
    /\ UNCHANGED <<map_in, itemVars, addrVars, confVars, docVars, valVars,
                   scalarVars, invVars, termsVars,
                 ctorVars,
                 concVars,
                 sectVars,
                 multiVars,
                 batchVars,
                 discVars>>

NextMap == RunMapFormFieldToEntity

SpecMap == InitMap /\ [][NextMap]_vars

(***************************************************************************)
(* SpecTerms: the freight charge terms of a record.  The terms met in a    *)
(* document are a sequence of words one blank apart, some in several       *)
(* letter cases; each action puts them where one extraction path reads     *)
(* them and gives freight_charge_terms as that path leaves it.             *)
(***************************************************************************)
MaxTermsLen == 2

TermWords ==
    {"Collect", "COLLECT", "collect", "Prepaid", "PREPAID", "Third", "THIRD",
     "Party", "PARTY", "party", "COD"}

\* the first letter of a lower-case word in upper case
Title(lower) ==
    CASE lower = "collect" -> "Collect"
      [] lower = "prepaid" -> "Prepaid"
      [] lower = "third" -> "Third"
      [] lower = "party" -> "Party"
      [] lower = "cod" -> "Cod"
      [] OTHER -> lower

\* str.capitalize(): the first character upper-cased, the rest lower-cased
Capitalize(words) ==
    [i \in 1..Len(words) |->
        IF i = 1 THEN Title(Lower(words[i])) ELSE Lower(words[i])]

\* r'FREIGHT CHARGES:\s*(Collect|Prepaid|Third Party)' with re.IGNORECASE,
\* on the text "FREIGHT CHARGES: " followed by the words: group(1)
FreightMatch(words) ==
    IF words # <<>> /\ Lower(words[1]) \in {"collect", "prepaid"}
    THEN [found |-> TRUE, group |-> <<words[1]>>]
    ELSE IF Len(words) >= 2 /\ Lower(words[1]) = "third"
            /\ Lower(words[2]) = "party"
    THEN [found |-> TRUE, group |-> SubSeq(words, 1, 2)]
    ELSE NoGroup

\* lines 487-490
FreightTermsFromText(freight_match) ==
    IF freight_match.found
    THEN "freight_charge_terms" :> Capitalize(freight_match.group)
    ELSE <<>>

\* lines 736-739: r'FREIGHT CHARGES:\s*(\w+)'
FreightTermsFromSection(words) ==
    IF words # <<>>
    THEN "freight_charge_terms" :> <<words[1]>>
    ELSE <<>>

\* lines 192-193
RecordTerms(entities) ==
    Or(Get(entities, "freight_charge_terms"), Get(entities, "payment_terms"))

\* line 128
PageRecordTerms(entities) == Get(entities, "freight_charge_terms")

InitTerms ==
    /\ \E n \in 0..MaxTermsLen : terms_in \in [1..n -> TermWords]
    /\ terms_call = "none"
    /\ terms_out = <<>>
    /\ IdleItems
    /\ IdleAddr
    /\ IdleConf
    /\ IdleDoc
    /\ IdleValid
    /\ IdleParse
    /\ IdleInvoice
    /\ IdleMap
    /\ IdleCtor
    /\ IdleConc
    /\ IdleSect
    /\ IdleMulti
    /\ IdleBatch
    /\ IdleDisc

RunTerms(call, terms) ==
    /\ terms_call' = call
    /\ terms_out' = terms
    /\ UNCHANGED <<terms_in, itemVars, addrVars, confVars, docVars, valVars,
                   scalarVars, invVars, mapVars,
                 ctorVars,
                 concVars,
                 sectVars,
                 multiVars,
                 batchVars,
                 discVars>>

\* extract_bol_data on a document with the terms in its raw text alone
RunTermsFromText ==
    /\ terms_call = "none"
    /\ RunTerms("text",
                RecordTerms(FreightTermsFromText(FreightMatch(terms_in))))

\* extract_multiple_bols on a page with the terms in its text
RunTermsFromPageText ==
    /\ terms_call = "none"
    /\ RunTerms("page_text",
                PageRecordTerms(FreightTermsFromText(FreightMatch(terms_in))))

\* extract_bol_data on a document with the terms as the value of a form
\* field labelled "Freight Charge"
RunTermsFromFormField ==
    /\ terms_call = "none"
    /\ RunTerms("form_field",
                RecordTerms(WithFormField(<<>>, <<"Freight Charge">>,
                                          terms_in)))

\* _extract_from_text_section on a section with the terms in its text
RunTermsFromSection ==
    /\ terms_call = "none"
    /\ RunTerms("section",
                PageRecordTerms(FreightTermsFromSection(terms_in)))

NextTerms ==
    \/ RunTermsFromText
    \/ RunTermsFromPageText
    \/ RunTermsFromFormField
    \/ RunTermsFromSection

SpecTerms == InitTerms /\ [][NextTerms]_vars

(***************************************************************************)
(* SpecCtor: the ShipmentItem constructor applied to keyword arguments.    *)
(* The arguments are a map from field names to values; a field left out    *)
(* is not in the map.                                                      *)
(***************************************************************************)
MaxDescLen == 2

\* description: Optional[str] = None in place of description: str
NewShipmentItemOptional(kwargs) ==
    Return(ShipmentItem(Get(kwargs, "description"), Get(kwargs, "nmfc_code")))

\* models/bol.py lines 7-16: description: str has no default and does not
\* admit None; any str, the empty one too, is admitted
NewShipmentItem(kwargs) ==
    IF "description" \notin DOMAIN kwargs \/ kwargs.description = None
    THEN Raise("ValidationError", <<"description">>)
    ELSE Return(ShipmentItem(kwargs.description, Get(kwargs, "nmfc_code")))

DescriptionArgs ==
    {<<>>, "description" :> None} \cup
    {"description" :> d : d \in SeqsUpTo(ItemTokens, MaxDescLen)}

NmfcArgs == {<<>>, "nmfc_code" :> <<NmfcCode>>}

InitCtor ==
    /\ \E d \in DescriptionArgs, n \in NmfcArgs : ctor_in = d @@ n
    /\ ctor_call = "none"
    /\ ctor_out = NotCalled
    /\ IdleItems
    /\ IdleAddr
    /\ IdleConf
    /\ IdleDoc
    /\ IdleValid
    /\ IdleParse
    /\ IdleInvoice
    /\ IdleMap
    /\ IdleTerms
    /\ IdleConc
    /\ IdleSect
    /\ IdleMulti
    /\ IdleBatch
    /\ IdleDisc

\* test_crash_fix.py: ShipmentItem(**item_data)
RunNewShipmentItem ==
    /\ ctor_call = "none"
    /\ ctor_call' = "ShipmentItem"
    /\ ctor_out' = NewShipmentItem(ctor_in)
    /\ UNCHANGED <<ctor_in, itemVars, addrVars, confVars, docVars, valVars,
                   scalarVars, invVars, mapVars, termsVars,
                 concVars,
                 sectVars,
                 multiVars,
                 batchVars,
                 discVars>>

NextCtor == RunNewShipmentItem

SpecCtor == InitCtor /\ [][NextCtor]_vars

(***************************************************************************)
(* SpecConc: extract_bol_data called by several callers at once on the one *)
(* service object, each with its own document.  A call goes through the    *)
(* statements of lines 166-220 one at a time, and the statements of        *)
(* different calls interleave in any order.  entities, shipment_items and  *)
(* confidence_scores are local variables: they live in the frame of the    *)
(* call.                                                                   *)
(***************************************************************************)
NumCallers == 2

Callers == 1..NumCallers

ServiceFields == [processor_id |-> "p", client |-> "c"]

ConcDocuments ==
    { Document(<<>>, FALSE, <<>>),
      Document(<<"BOL #", "7">>, FALSE, <<>>),
      Document(<<"<FIELD>", "Shipper Name", "Acme">>, TRUE, <<>>),
      Document(<<"Acme">>, FALSE,
               <<DocEntity("shipper", <<>>, <<"Acme">>, 7,
                           <<Prop("name", <<"Acme">>, None)>>)>>) }

EmptyFrame ==
    [entities |-> <<>>, shipment_items |-> <<>>, confidence_scores |-> <<>>]

CallerBolId(c) == <<DocumentId, c>>

\* every call writing its locals into one place shared by all calls
FrameOfShared(c) == 1

\* the frame that holds the locals of the call of caller c: its own
FrameOf(c) == c

InitConc ==
    /\ conc_in \in [Callers -> ConcDocuments]
    /\ conc_docs = conc_in
    /\ conc_self = ServiceFields
    /\ conc_pc = [c \in Callers |-> "line 166"]
    /\ conc_frames = [c \in Callers |-> EmptyFrame]
    /\ conc_out = [c \in Callers |-> NoData]
    /\ IdleItems
    /\ IdleAddr
    /\ IdleConf
    /\ IdleDoc
    /\ IdleValid
    /\ IdleParse
    /\ IdleInvoice
    /\ IdleMap
    /\ IdleTerms
    /\ IdleCtor
    /\ IdleSect
    /\ IdleMulti
    /\ IdleBatch
    /\ IdleDisc

ConcOthers ==
    <<itemVars, addrVars, confVars, docVars, valVars, scalarVars, invVars,
      mapVars, termsVars, ctorVars, sectVars, multiVars, batchVars,
      discVars>>

\* line 166: entities = self._extract_entities(document)
StepExtractEntities(c) ==
    /\ conc_pc[c] = "line 166"
    /\ conc_frames' = [conc_frames EXCEPT ![FrameOf(c)].entities =
                          ExtractEntities(conc_docs[c]).entities]
    /\ conc_pc' = [conc_pc EXCEPT ![c] = "line 167"]
    /\ UNCHANGED <<conc_in, conc_docs, conc_self, conc_out, ConcOthers>>

\* line 167: shipment_items = self._extract_shipment_items(document)
StepExtractShipmentItems(c) ==
    /\ conc_pc[c] = "line 167"
    /\ conc_frames' = [conc_frames EXCEPT ![FrameOf(c)].shipment_items =
                          ExtractShipmentItems(conc_docs[c]).items]
    /\ conc_pc' = [conc_pc EXCEPT ![c] = "line 168"]
    /\ UNCHANGED <<conc_in, conc_docs, conc_self, conc_out, ConcOthers>>

\* line 168: confidence_scores = self._calculate_confidence_scores(document)
StepCalculateConfidenceScores(c) ==
    /\ conc_pc[c] = "line 168"
    /\ conc_frames' = [conc_frames EXCEPT ![FrameOf(c)].confidence_scores =
                          CalculateConfidenceScores(conc_docs[c].entities)]
    /\ conc_pc' = [conc_pc EXCEPT ![c] = "line 170"]
    /\ UNCHANGED <<conc_in, conc_docs, conc_self, conc_out, ConcOthers>>

\* lines 170-220: bol_data = BOLData(...); return bol_data
StepBuildBolData(c) ==
    /\ conc_pc[c] = "line 170"
    /\ conc_out' = [conc_out EXCEPT ![c] =
                       AssembleBolData(conc_docs[c], CallerBolId(c),
                           conc_frames[FrameOf(c)].entities,
                           conc_frames[FrameOf(c)].shipment_items,
                           conc_frames[FrameOf(c)].confidence_scores)]
    /\ conc_pc' = [conc_pc EXCEPT ![c] = "done"]
    /\ UNCHANGED <<conc_in, conc_docs, conc_self, conc_frames, ConcOthers>>

NextConc ==
    \/ \E c \in Callers : StepExtractEntities(c)
    \/ \E c \in Callers : StepExtractShipmentItems(c)
    \/ \E c \in Callers : StepCalculateConfidenceScores(c)
    \/ \E c \in Callers : StepBuildBolData(c)

SpecConc == InitConc /\ [][NextConc]_vars

(***************************************************************************)
(* SpecMulti: one call of BOLParser.parse_bol, which awaits                *)
(* parse_bol_multi and wraps its result.  The storage service and the      *)
(* analysis service are collaborators of the parser: a call to one of them *)
(* either returns or raises, and multi_calls records the calls made with   *)
(* their outcomes.  (StorageService.upload_file, save_parsed_data and      *)
(* generate_signed_url of services/storage.py take no keyword "folder" and *)
(* the class has no delete_bol: against that class the calls of lines 72,  *)
(* 191, 120 and 224 take the raising outcome.)                             *)
(***************************************************************************)
\* models/bol_responses.py, lines 23-36
MultiBOLParseResponse(success, document_id, message, bol_count, bols, preview_url) ==
    [shape |-> "MultiBOLParseResponse", success |-> success,
     document_id |-> document_id, message |-> message,
     bol_count |-> bol_count, bols |-> bols, preview_url |-> preview_url]

\* models/bol_responses.py, lines 7-20
BOLParseResponse(success, bol_id, message, data, preview_url, storage_path) ==
    [shape |-> "BOLParseResponse", success |-> success, bol_id |-> bol_id,
     message |-> message, data |-> data, preview_url |-> preview_url,
     storage_path |-> storage_path]

PreviewUrl == <<"https://signed">>

\* the documents the analysis service hands back
MultiDocuments ==
    ConcDocuments
    \cup { Document(<<"BOL #", "7", "<BREAK>", "Acme">>, TRUE, <<>>) }

MultiMetadata == [original_filename |-> <<"a.pdf">>]

Called(call, arg, raised) == [call |-> call, arg |-> arg, raised |-> raised]

\* the calls of one collaborator method that returned
ReturnedCalls(call) ==
    SelectSeq(multi_calls, LAMBDA c : c.call = call /\ ~c.raised)

\* line 114: an exception raised inside the try block enters the handler
Proceed(raised, exception, next) ==
    /\ multi_pc' = IF raised THEN "line 114" ELSE next
    /\ multi_error' = IF raised THEN <<exception>> ELSE multi_error

InitMulti ==
    /\ multi_in \in [client : BOOLEAN, document : MultiDocuments,
                     metadata : {MultiMetadata}]
    /\ multi_pc = "line 68"
    /\ multi_bols = <<>>
    /\ multi_error = <<>>
    /\ multi_calls = <<>>
    /\ multi_out = NotCalled
    /\ multi_single = NotCalled
    /\ IdleItems
    /\ IdleAddr
    /\ IdleConf
    /\ IdleDoc
    /\ IdleValid
    /\ IdleParse
    /\ IdleInvoice
    /\ IdleMap
    /\ IdleTerms
    /\ IdleCtor
    /\ IdleConc
    /\ IdleSect
    /\ IdleBatch
    /\ IdleDisc

MultiOthers ==
    <<itemVars, addrVars, confVars, docVars, valVars, scalarVars, invVars,
      mapVars, termsVars, ctorVars, concVars, sectVars, batchVars,
      discVars>>

\* lines 68-69: if not self.storage.client: self.storage.initialize()
StepInitializeStorage ==
    /\ multi_pc = "line 68"
    /\ IF multi_in.client
       THEN /\ multi_pc' = "line 72"
            /\ UNCHANGED <<multi_error, multi_calls>>
       ELSE \E raised \in BOOLEAN :
              /\ multi_calls' = Append(multi_calls,
                     Called("initialize", <<>>, raised))
              /\ Proceed(raised, "StorageError", "line 72")
    /\ UNCHANGED <<multi_in, multi_bols, multi_out, multi_single,
                   MultiOthers>>

\* lines 72-77: await self.storage.upload_file(...)
StepUploadFile ==
    /\ multi_pc = "line 72"
    /\ \E raised \in BOOLEAN :
         /\ multi_calls' = Append(multi_calls,
                Called("upload_file", <<DocumentId>>, raised))
         /\ Proceed(raised, "StorageError", "line 81")
    /\ UNCHANGED <<multi_in, multi_bols, multi_out, multi_single,
                   MultiOthers>>

\* lines 81-84: document = await self.document_ai.process_document(...)
StepProcessDocument ==
    /\ multi_pc = "line 81"
    /\ \E raised \in BOOLEAN :
         /\ multi_calls' = Append(multi_calls,
                Called("process_document", <<DocumentId>>, raised))
         /\ Proceed(raised, "DocumentAIError", "line 88")
    /\ UNCHANGED <<multi_in, multi_bols, multi_out, multi_single,
                   MultiOthers>>

\* lines 88-91: bol_data_list = await self.document_ai.extract_multiple_bols
StepExtractMultipleBols ==
    /\ multi_pc = "line 88"
    /\ \E raised \in BOOLEAN :
         /\ multi_calls' = Append(multi_calls,
                Called("extract_multiple_bols", <<DocumentId>>, raised))
         /\ multi_bols' =
               IF raised THEN multi_bols
               ELSE ExtractMultipleBols(multi_in.document,
                                        DocumentId).records
         /\ Proceed(raised, "DocumentAIError",
                    IF multi_bols' = <<>> THEN "line 100" ELSE "line 94")
    /\ UNCHANGED <<multi_in, multi_out, multi_single, MultiOthers>>

\* line 95: bol_data.metadata.update(metadata)
UpdateMetadata(bol_data, metadata) ==
    [bol_data EXCEPT !.metadata = metadata @@ @]

\* lines 94-97: one turn of the loop over bol_data_list
StepSaveBolData ==
    /\ multi_pc = "line 94"
    /\ LET i == Len(ReturnedCalls("save_bol_data")) + 1
       IN  /\ multi_bols' = [multi_bols EXCEPT
                                ![i] = UpdateMetadata(@, multi_in.metadata)]
           /\ \E raised \in BOOLEAN :
                /\ multi_calls' = Append(multi_calls,
                       Called("save_bol_data", multi_bols[i].bol_id, raised))
                /\ Proceed(raised, "DocumentParserException",
                           IF i = Len(multi_bols) THEN "line 100"
                           ELSE "line 94")
    /\ UNCHANGED <<multi_in, multi_out, multi_single, MultiOthers>>

\* line 100: preview_url = await self.get_bol_preview(document_id, file_name)
StepGetBolPreview ==
    /\ multi_pc = "line 100"
    /\ \E raised \in BOOLEAN :
         /\ multi_calls' = Append(multi_calls,
                Called("get_bol_preview", <<DocumentId>>, raised))
         /\ Proceed(raised, "DocumentParserException", "line 104")
    /\ UNCHANGED <<multi_in, multi_bols, multi_out, multi_single,
                   MultiOthers>>

\* lines 104-112
StepReturnParsed ==
    /\ multi_pc = "line 104"
    /\ multi_out' = Return(MultiBOLParseResponse(TRUE, DocumentId,
                               <<"BOL(s) parsed successfully">>,
                               Len(multi_bols), multi_bols, PreviewUrl))
    /\ multi_pc' = "line 39"
    /\ UNCHANGED <<multi_in, multi_bols, multi_error, multi_calls,
                   multi_single, MultiOthers>>

\* the clean-up call with no handler around it
AfterCleanUpUnguarded(raised) ==
    IF raised THEN "raised" ELSE "line 124"

\* lines 119-122: try: await self.storage.delete_bol(document_id)
\*                except: pass
AfterCleanUp(raised) == "line 124"

\* lines 114-122: the handler's clean-up
StepCleanUp ==
    /\ multi_pc = "line 114"
    /\ \E raised \in BOOLEAN :
         /\ multi_calls' = Append(multi_calls,
                Called("delete_bol", <<DocumentId>>, raised))
         /\ multi_pc' = AfterCleanUp(raised)
         /\ multi_out' = IF AfterCleanUp(raised) = "raised"
                         THEN Raise("StorageError", <<"delete_bol">>)
                         ELSE multi_out
    /\ UNCHANGED <<multi_in, multi_bols, multi_error, multi_single,
                   MultiOthers>>

\* lines 124-132
StepReturnFailed ==
    /\ multi_pc = "line 124"
    /\ multi_out' = Return(MultiBOLParseResponse(FALSE, DocumentId,
                               <<"BOL parsing failed">> \o multi_error,
                               0, <<>>, None))
    /\ multi_pc' = "line 39"
    /\ UNCHANGED <<multi_in, multi_bols, multi_error, multi_calls,
                   multi_single, MultiOthers>>

\* parse_bol, lines 39-53, applied to what parse_bol_multi returned
ParseBol(result) ==
    IF result.shape = "MultiBOLParseResponse" /\ result.bols # <<>>
    THEN BOLParseResponse(result.success, result.bols[1].bol_id,
             IF result.bol_count > 1
             THEN <<"First BOL extracted from multi-BOL document">>
             ELSE <<"BOL parsed successfully">>,
             result.bols[1], result.preview_url,
             <<"parsed_bol/">> \o result.bols[1].bol_id \o <<"/data.json">>)
    ELSE result

\* parse_bol, lines 32-53
StepParseBol ==
    /\ multi_pc = "line 39"
    /\ multi_single' = Return(ParseBol(multi_out.value))
    /\ multi_pc' = "done"
    /\ UNCHANGED <<multi_in, multi_bols, multi_error, multi_calls,
                   multi_out, MultiOthers>>

NextMulti ==
    \/ StepInitializeStorage
    \/ StepUploadFile
    \/ StepProcessDocument
    \/ StepExtractMultipleBols
    \/ StepSaveBolData
    \/ StepGetBolPreview
    \/ StepReturnParsed
    \/ StepCleanUp
    \/ StepReturnFailed
    \/ StepParseBol

SpecMulti == InitMulti /\ [][NextMulti]_vars

(***************************************************************************)
(* SpecBatch: one call of parse_batch, of the invoice parser (a semaphore  *)
(* of max_workers slots around every parse_invoice call, all gathered at   *)
(* once) or of the BOL parser (the parse_bol calls gathered in chunks of   *)
(* max_workers).  The endpoints pass at least one file and a max_workers   *)
(* of at least 1 (api/parsing.py:76 and 111, api/bol_parsing.py:134).      *)
(***************************************************************************)
MaxFiles == 3

MaxWorkers == 2

\* document_id = str(uuid.uuid4()): one identifier per parse call
BatchDocumentId(i) == <<DocumentId>> \o Format03d(i)

\* models/responses.py, lines 8-22
ParseResponse(success, invoice_id) ==
    [shape |-> "ParseResponse", success |-> success,
     document_id |-> invoice_id]

\* parser.py lines 77-99: parse_invoice returns a ParseResponse either way
ParseInvoice(i, success) ==
    ParseResponse(success, IF success THEN BatchDocumentId(i) ELSE <<>>)

\* what parse_bol_multi returns for file i (bol_parser.py lines 104-132)
ParseBolMulti(i, success) ==
    IF success
    THEN MultiBOLParseResponse(TRUE, BatchDocumentId(i),
             <<"BOL(s) parsed successfully">>, 1,
             <<BOLData([bol_id |-> BatchDocumentId(i)])>>, PreviewUrl)
    ELSE MultiBOLParseResponse(FALSE, BatchDocumentId(i),
             <<"BOL parsing failed">>, 0, <<>>, None)

\* the model of every BOLParseResponse (pydantic): a value of another model
\* class is rebuilt from its fields, and bol_id is required
IsBOLParseResponse(value) == "bol_id" \in DOMAIN value

\* models/bol_responses.py line 44: results: List[BOLParseResponse]
ValidResults(results) ==
    \A k \in 1..Len(results) : IsBOLParseResponse(results[k])

Successful(results) ==
    Cardinality({k \in 1..Len(results) : results[k].success})

\* parser.py lines 151-158
BatchParseResponse(results, total_files) ==
    [success |-> Successful(results) = Len(results),
     total_files |-> total_files, successful |-> Successful(results),
     failed |-> Len(results) - Successful(results), results |-> results]

\* parser.py lines 166-173
BatchFailed(total_files) ==
    [success |-> FALSE, total_files |-> total_files, successful |-> 0,
     failed |-> total_files, results |-> <<>>]

\* bol_parser.py lines 178-185
BOLBatchParseResponse(results, total_files) ==
    IF ValidResults(results)
    THEN Return([success |-> Successful(results) > 0,
                 total_files |-> total_files,
                 successful |-> Successful(results),
                 failed |-> Len(results) - Successful(results),
                 results |-> results])
    ELSE Raise("ValidationError", <<"results", "bol_id", "field required">>)

NewTask == [state |-> "created", started |-> 0, result |-> <<>>]

InFlight == {i \in DOMAIN batch_task : batch_task[i].state = "parsing"}

\* the files of the chunk tasks[i:i + max_workers]
ChunkFiles ==
    {i \in DOMAIN batch_task :
        /\ i > batch_chunk
        /\ i <= batch_chunk + batch_in.max_workers}

InitBatch ==
    /\ batch_in \in [kind : {"invoice", "bol"}, files : 1..MaxFiles,
                     max_workers : 1..MaxWorkers]
    /\ batch_pc = "start"
    /\ batch_chunk = 0
    /\ batch_sem = 0
    /\ batch_task = [i \in 1..batch_in.files |-> NewTask]
    /\ batch_results = <<>>
    /\ batch_out = NotCalled
    /\ IdleItems
    /\ IdleAddr
    /\ IdleConf
    /\ IdleDoc
    /\ IdleValid
    /\ IdleParse
    /\ IdleInvoice
    /\ IdleMap
    /\ IdleTerms
    /\ IdleCtor
    /\ IdleConc
    /\ IdleSect
    /\ IdleMulti
    /\ IdleDisc

BatchOthers ==
    <<itemVars, addrVars, confVars, docVars, valVars, scalarVars, invVars,
      mapVars, termsVars, ctorVars, concVars, sectVars, multiVars,
      discVars>>

\* parser.py lines 109-125: the services are initialized when needed, the
\* semaphore is made and gather schedules every task; an exception of
\* initialize is answered by the handler of lines 162-173
StepGatherAll ==
    /\ batch_pc = "start"
    /\ batch_in.kind = "invoice"
    /\ \E raised \in BOOLEAN :
         IF raised
         THEN /\ batch_pc' = "done"
              /\ batch_out' = Return(BatchFailed(batch_in.files))
              /\ UNCHANGED <<batch_sem, batch_task>>
         ELSE /\ batch_pc' = "gather"
              /\ batch_sem' = batch_in.max_workers
              /\ batch_task' = [i \in DOMAIN batch_task |->
                                   [batch_task[i] EXCEPT !.state = "waiting"]]
              /\ UNCHANGED batch_out
    /\ UNCHANGED <<batch_in, batch_chunk, batch_results, BatchOthers>>

\* parser.py lines 117-118: async with semaphore: await self.parse_invoice
StepAcquire(i) ==
    /\ batch_pc = "gather"
    /\ batch_task[i].state = "waiting"
    /\ batch_sem > 0
    /\ batch_sem' = batch_sem - 1
    /\ batch_task' = [batch_task EXCEPT ![i].state = "parsing",
                                        ![i].started = @ + 1]
    /\ UNCHANGED <<batch_in, batch_pc, batch_chunk, batch_results, batch_out,
                   BatchOthers>>

\* parser.py lines 117-123: parse_invoice returns and the slot is released
StepParseInvoiceReturns(i) ==
    /\ batch_in.kind = "invoice"
    /\ batch_task[i].state = "parsing"
    /\ \E success \in BOOLEAN :
         batch_task' = [batch_task EXCEPT ![i].state = "done",
                            ![i].result = ParseInvoice(i, success)]
    /\ batch_sem' = batch_sem + 1
    /\ UNCHANGED <<batch_in, batch_pc, batch_chunk, batch_results, batch_out,
                   BatchOthers>>

\* parser.py lines 126-158: gather returns the results in task order
StepReturnBatch ==
    /\ batch_pc = "gather"
    /\ \A i \in DOMAIN batch_task : batch_task[i].state = "done"
    /\ batch_results' = [i \in DOMAIN batch_task |-> batch_task[i].result]
    /\ batch_out' = Return(BatchParseResponse(batch_results',
                                              batch_in.files))
    /\ batch_pc' = "done"
    /\ UNCHANGED <<batch_in, batch_chunk, batch_sem, batch_task,
                   BatchOthers>>

\* bol_parser.py lines 154-156: gather starts the coroutines of one chunk
StepGatherChunk ==
    /\ batch_pc = "start"
    /\ batch_in.kind = "bol"
    /\ batch_chunk < batch_in.files
    /\ batch_task' = [i \in DOMAIN batch_task |->
                         IF i \in ChunkFiles
                         THEN [batch_task[i] EXCEPT !.state = "parsing",
                                                    !.started = @ + 1]
                         ELSE batch_task[i]]
    /\ batch_pc' = "chunk"
    /\ UNCHANGED <<batch_in, batch_chunk, batch_sem, batch_results,
                   batch_out, BatchOthers>>

\* bol_parser.py lines 144-149 and 24-53: one parse_bol call returns
StepParseBolReturns(i) ==
    /\ batch_in.kind = "bol"
    /\ batch_task[i].state = "parsing"
    /\ \E success \in BOOLEAN :
         batch_task' = [batch_task EXCEPT ![i].state = "done",
                            ![i].result = ParseBol(ParseBolMulti(i, success))]
    /\ UNCHANGED <<batch_in, batch_pc, batch_chunk, batch_sem, batch_results,
                   batch_out, BatchOthers>>

\* bol_parser.py lines 156-171: the chunk's results, in task order, are
\* appended and the loop moves on by max_workers
StepCollectChunk ==
    /\ batch_pc = "chunk"
    /\ \A i \in ChunkFiles : batch_task[i].state = "done"
    /\ batch_results' =
          batch_results \o
          [k \in 1..Cardinality(ChunkFiles) |->
              batch_task[batch_chunk + k].result]
    /\ batch_chunk' = batch_chunk + batch_in.max_workers
    /\ batch_pc' = "start"
    /\ UNCHANGED <<batch_in, batch_sem, batch_task, batch_out, BatchOthers>>

\* bol_parser.py lines 174-185
StepReturnBolBatch ==
    /\ batch_pc = "start"
    /\ batch_in.kind = "bol"
    /\ batch_chunk >= batch_in.files
    /\ batch_out' = BOLBatchParseResponse(batch_results, batch_in.files)
    /\ batch_pc' = "done"
    /\ UNCHANGED <<batch_in, batch_chunk, batch_sem, batch_task,
                   batch_results, BatchOthers>>

NextBatch ==
    \/ StepGatherAll
    \/ \E i \in DOMAIN batch_task : StepAcquire(i)
    \/ \E i \in DOMAIN batch_task : StepParseInvoiceReturns(i)
    \/ StepReturnBatch
    \/ StepGatherChunk
    \/ \E i \in DOMAIN batch_task : StepParseBolReturns(i)
    \/ StepCollectChunk
    \/ StepReturnBolBatch

SpecBatch == InitBatch /\ [][NextBatch]_vars

\* the event loop runs every task that can run, and every parse call returns
FairBatch == InitBatch /\ [][NextBatch]_vars /\ WF_vars(NextBatch)

(***************************************************************************)
(* SpecDisc: process_document calls of the invoice analysis service run    *)
(* _process_document_sync on the threads of self.executor, all on the one  *)
(* service object and with no processor id configured.  A thread can be    *)
(* preempted between any two statements.                                   *)
(***************************************************************************)
NumThreads == 2

Threads == 1..NumThreads

Processor(id, display_name) == [id |-> id, display_name |-> display_name]

\* line 72: "invoice" in processor.display_name.lower()
IsInvoiceProcessor(processor) ==
    processor.display_name \in {"Invoice Parser", "invoice-eu"}

\* what the project holds before the first call
InitialProcessors ==
    {<<>>, <<Processor(1, "OCR")>>, <<Processor(1, "Invoice Parser")>>,
     <<Processor(1, "OCR"), Processor(2, "invoice-eu")>>}

NoLocals == [processors |-> <<>>, processor |-> <<>>, name |-> <<>>]

\* lines 71-76: the first processor of the listing with "invoice" in its name
RECURSIVE FirstInvoiceProcessor(_)
FirstInvoiceProcessor(processors) ==
    IF processors = <<>> THEN <<>>
    ELSE IF IsInvoiceProcessor(Head(processors))
    THEN <<Head(processors).id>>
    ELSE FirstInvoiceProcessor(Tail(processors))

InitDisc ==
    /\ disc_in \in InitialProcessors
    /\ disc_server = disc_in
    /\ disc_self = [processor_id |-> <<>>]
    /\ disc_pc = [t \in Threads |-> "line 65"]
    /\ disc_local = [t \in Threads |-> NoLocals]
    /\ disc_used = [t \in Threads |-> <<>>]
    /\ IdleItems
    /\ IdleAddr
    /\ IdleConf
    /\ IdleDoc
    /\ IdleValid
    /\ IdleParse
    /\ IdleInvoice
    /\ IdleMap
    /\ IdleTerms
    /\ IdleCtor
    /\ IdleConc
    /\ IdleSect
    /\ IdleMulti
    /\ IdleBatch

DiscOthers ==
    <<itemVars, addrVars, confVars, docVars, valVars, scalarVars, invVars,
      mapVars, termsVars, ctorVars, concVars, sectVars, multiVars,
      batchVars>>

\* line 65: if not self.processor_id:
StepTestProcessorId(t) ==
    /\ disc_pc[t] = "line 65"
    /\ disc_pc' = [disc_pc EXCEPT ![t] =
                      IF disc_self.processor_id = <<>> THEN "line 68"
                      ELSE "line 89"]
    /\ UNCHANGED <<disc_in, disc_server, disc_self, disc_local, disc_used,
                   DiscOthers>>

\* line 68: processors = self.client.list_processors(parent=processor_name)
StepListProcessors(t) ==
    /\ disc_pc[t] = "line 68"
    /\ disc_local' = [disc_local EXCEPT ![t].processors = disc_server]
    /\ disc_pc' = [disc_pc EXCEPT ![t] = "line 71"]
    /\ UNCHANGED <<disc_in, disc_server, disc_self, disc_used, DiscOthers>>

\* lines 71-78: the loop over the listing and the test of its result
StepFindInvoiceProcessor(t) ==
    /\ disc_pc[t] = "line 71"
    /\ IF FirstInvoiceProcessor(disc_local[t].processors) = <<>>
       THEN /\ disc_pc' = [disc_pc EXCEPT ![t] = "line 80"]
            /\ UNCHANGED disc_self
       ELSE /\ disc_self' = [disc_self EXCEPT !.processor_id =
                   FirstInvoiceProcessor(disc_local[t].processors)]
            /\ disc_pc' = [disc_pc EXCEPT ![t] = "line 89"]
    /\ UNCHANGED <<disc_in, disc_server, disc_local, disc_used, DiscOthers>>

\* lines 80-86: processor = self.client.create_processor(...)
StepCreateProcessor(t) ==
    /\ disc_pc[t] = "line 80"
    /\ disc_server' = Append(disc_server,
                             Processor(Len(disc_server) + 1,
                                       "Invoice Parser"))
    /\ disc_local' = [disc_local EXCEPT ![t].processor =
                         <<Len(disc_server) + 1>>]
    /\ disc_pc' = [disc_pc EXCEPT ![t] = "line 87"]
    /\ UNCHANGED <<disc_in, disc_self, disc_used, DiscOthers>>

\* line 87: self.processor_id = processor.name.split("/")[-1]
StepSetProcessorId(t) ==
    /\ disc_pc[t] = "line 87"
    /\ disc_self' = [disc_self EXCEPT !.processor_id =
                        disc_local[t].processor]
    /\ disc_pc' = [disc_pc EXCEPT ![t] = "line 89"]
    /\ UNCHANGED <<disc_in, disc_server, disc_local, disc_used, DiscOthers>>

\* lines 89-93: name = self.client.processor_path(..., self.processor_id)
StepProcessorPath(t) ==
    /\ disc_pc[t] = "line 89"
    /\ disc_local' = [disc_local EXCEPT ![t].name = disc_self.processor_id]
    /\ disc_pc' = [disc_pc EXCEPT ![t] = "line 105"]
    /\ UNCHANGED <<disc_in, disc_server, disc_self, disc_used, DiscOthers>>

\* lines 100-106: result = self.client.process_document(request=request)
StepProcessRequest(t) ==
    /\ disc_pc[t] = "line 105"
    /\ disc_used' = [disc_used EXCEPT ![t] = disc_local[t].name]
    /\ disc_pc' = [disc_pc EXCEPT ![t] = "done"]
    /\ UNCHANGED <<disc_in, disc_server, disc_self, disc_local, DiscOthers>>

NextDisc ==
    \/ \E t \in Threads : StepTestProcessorId(t)
    \/ \E t \in Threads : StepListProcessors(t)
    \/ \E t \in Threads : StepFindInvoiceProcessor(t)
    \/ \E t \in Threads : StepCreateProcessor(t)
    \/ \E t \in Threads : StepSetProcessorId(t)
    \/ \E t \in Threads : StepProcessorPath(t)
    \/ \E t \in Threads : StepProcessRequest(t)

SpecDisc == InitDisc /\ [][NextDisc]_vars

(***************************************************************************)
(* SpecSect: _detect_multiple_bols applied to one text.                    *)
(***************************************************************************)
MaxSectTextLen == 6

SectTokens == {"BOL #", "7", "NL", "Acme"}

InitSect ==
    /\ \E n \in 0..MaxSectTextLen : sect_in \in [1..n -> SectTokens]
    /\ sect_call = "none"
    /\ sect_out = <<>>
    /\ IdleItems
    /\ IdleAddr
    /\ IdleConf
    /\ IdleDoc
    /\ IdleValid
    /\ IdleParse
    /\ IdleInvoice
    /\ IdleMap
    /\ IdleTerms
    /\ IdleCtor
    /\ IdleConc
    /\ IdleMulti
    /\ IdleBatch
    /\ IdleDisc

RunDetectMultipleBols ==
    /\ sect_call = "none"
    /\ sect_call' = "_detect_multiple_bols"
    /\ sect_out' = DetectMultipleBols(sect_in)
    /\ UNCHANGED <<sect_in, itemVars, addrVars, confVars, docVars, valVars,
                   scalarVars, invVars, mapVars, termsVars, ctorVars,
                   concVars,
                 multiVars,
                 batchVars,
                 discVars>>

NextSect == RunDetectMultipleBols

SpecSect == InitSect /\ [][NextSect]_vars

(***************************************************************************)
(* The scalar parsers (_parse_date, _parse_amount, _parse_float,           *)
(* _parse_quantity, _parse_percentage, _parse_int of both services).       *)
(* A text is a sequence of tokens, each token standing for the characters  *)
(* of Chars(token); the parsers work on the characters.  A parsed date is  *)
(* [y, m, d]; a parsed number is the decimal the text denotes, digit by    *)
(* digit (a float is modelled by the decimal it rounds, which is exact for *)
(* the numerals of at most 15 digits).  Every step that can raise in       *)
(* Python yields Raise(<exception>) here, and the handlers of the          *)
(* source decide what becomes of it.                                       *)
(***************************************************************************)
DigitChars == {"0", "1", "2", "3", "4", "5", "6", "7", "8", "9"}

DigitValue(c) ==
    CASE c = "0" -> 0 [] c = "1" -> 1 [] c = "2" -> 2 [] c = "3" -> 3
      [] c = "4" -> 4 [] c = "5" -> 5 [] c = "6" -> 6 [] c = "7" -> 7
      [] c = "8" -> 8 [] c = "9" -> 9

\* the characters of a token; a month name stays one unit
Chars(token) ==
    CASE token = "2024" -> <<"2", "0", "2", "4">>
      [] token = "03" -> <<"0", "3">>
      [] token = "11" -> <<"1", "1">>
      [] token = "13" -> <<"1", "3">>
      [] token = "31" -> <<"3", "1">>
      [] token = "1.5" -> <<"1", ".", "5">>
      [] token = ", " -> <<",", " ">>
      [] token = "Mar " -> <<"Mar", " ">>
      [] OTHER -> <<token>>

RECURSIVE Expand(_)
Expand(text) ==
    IF text = <<>> THEN <<>> ELSE Chars(Head(text)) \o Expand(Tail(text))

\* str.strip() on characters
RECURSIVE StripChars(_)
StripChars(chars) ==
    IF chars = <<>> THEN <<>>
    ELSE IF Head(chars) = " " THEN StripChars(Tail(chars))
    ELSE IF chars[Len(chars)] = " "
    THEN StripChars(SubSeq(chars, 1, Len(chars) - 1))
    ELSE chars

\* the length of the run of digits that starts at position i
RECURSIVE DigitRun(_, _)
DigitRun(chars, i) ==
    IF i <= Len(chars) /\ chars[i] \in DigitChars
    THEN 1 + DigitRun(chars, i + 1)
    ELSE 0

\* the length of the run of spaces that starts at position i
RECURSIVE SpaceRun(_, _)
SpaceRun(chars, i) ==
    IF i <= Len(chars) /\ chars[i] = " "
    THEN 1 + SpaceRun(chars, i + 1)
    ELSE 0

\* the number the n digits from position i on denote
RECURSIVE DigitsValue(_, _, _)
DigitsValue(chars, i, n) ==
    IF n = 0 THEN 0
    ELSE 10 * DigitsValue(chars, i, n - 1) + DigitValue(chars[i + n - 1])

\* %B and %b of the C locale, letter case ignored
FullMonth(c) ==
    CASE c \in {"March", "MARCH"} -> 3 [] c \in {"May", "MAY"} -> 5
      [] OTHER -> 0
AbbrMonth(c) ==
    CASE c \in {"Mar", "MAR"} -> 3 [] c \in {"May", "MAY"} -> 5
      [] OTHER -> 0

IsLeap(y) == y % 4 = 0 /\ (y % 100 # 0 \/ y % 400 = 0)

DaysInMonth(y, m) ==
    CASE m \in {4, 6, 9, 11} -> 30
      [] m = 2 -> IF IsLeap(y) THEN 29 ELSE 28
      [] OTHER -> 31

\* datetime.date(y, m, d) accepts the values
ValidDate(got) ==
    /\ got.y >= 1 /\ got.y <= 9999
    /\ got.m >= 1 /\ got.m <= 12
    /\ got.d >= 1 /\ got.d <= DaysInMonth(got.y, got.m)

\* a two-digit year: 69-99 are 19xx, 00-68 are 20xx
Century(v) == IF v <= 68 THEN 2000 + v ELSE 1900 + v

NoDate == [y |-> 0, m |-> 0, d |-> 0]

\* datetime.strptime's regular expression for the format fmt matched at
\* position i, element k of the format.  In every format of the source a
\* directive is followed by a literal, by white space or by the end, so a
\* numeric directive matches only when the whole run of digits is in its
\* language: %Y four digits, %y two, %m 1-9 or 01-12, %d 1-9 or 01-31.
RECURSIVE MatchFormat(_, _, _, _, _)
MatchFormat(chars, i, fmt, k, got) ==
    IF k > Len(fmt)
    THEN IF i > Len(chars) /\ ValidDate(got) THEN got ELSE NoDate
    ELSE IF i > Len(chars) THEN NoDate
    ELSE IF fmt[k] = "%Y"
    THEN IF DigitRun(chars, i) = 4
         THEN MatchFormat(chars, i + 4, fmt, k + 1,
                          [got EXCEPT !.y = DigitsValue(chars, i, 4)])
         ELSE NoDate
    ELSE IF fmt[k] = "%y"
    THEN IF DigitRun(chars, i) = 2
         THEN MatchFormat(chars, i + 2, fmt, k + 1,
                [got EXCEPT !.y = Century(DigitsValue(chars, i, 2))])
         ELSE NoDate
    ELSE IF fmt[k] = "%m"
    THEN IF /\ DigitRun(chars, i) \in {1, 2}
            /\ DigitsValue(chars, i, DigitRun(chars, i)) \in 1..12
            /\ (DigitRun(chars, i) = 1
                  => DigitsValue(chars, i, 1) \in 1..9)
         THEN MatchFormat(chars, i + DigitRun(chars, i), fmt, k + 1,
                [got EXCEPT !.m = DigitsValue(chars, i, DigitRun(chars, i))])
         ELSE NoDate
    ELSE IF fmt[k] = "%d"
    THEN IF /\ DigitRun(chars, i) \in {1, 2}
            /\ DigitsValue(chars, i, DigitRun(chars, i)) \in 1..31
         THEN MatchFormat(chars, i + DigitRun(chars, i), fmt, k + 1,
                [got EXCEPT !.d = DigitsValue(chars, i, DigitRun(chars, i))])
         ELSE NoDate
    ELSE IF fmt[k] = "%B"
    THEN IF FullMonth(chars[i]) # 0
         THEN MatchFormat(chars, i + 1, fmt, k + 1,
                          [got EXCEPT !.m = FullMonth(chars[i])])
         ELSE NoDate
    ELSE IF fmt[k] = "%b"
    THEN IF AbbrMonth(chars[i]) # 0
         THEN MatchFormat(chars, i + 1, fmt, k + 1,
                          [got EXCEPT !.m = AbbrMonth(chars[i])])
         ELSE NoDate
    ELSE IF fmt[k] = " "
    THEN IF SpaceRun(chars, i) >= 1
         THEN MatchFormat(chars, i + SpaceRun(chars, i), fmt, k + 1, got)
         ELSE NoDate
    ELSE IF chars[i] = fmt[k]
    THEN MatchFormat(chars, i + 1, fmt, k + 1, got)
    ELSE NoDate

\* datetime.strptime(date_string, format).date()
DateOrValueError(got) ==
    IF got # NoDate THEN Return(got) ELSE Raise("ValueError", <<>>)

Strptime(chars, fmt) == DateOrValueError(MatchFormat(chars, 1, fmt, 1, NoDate))

\* the list with the day-first reading of a slash date before the
\* month-first one
BolDateFormatsDayFirst ==
    << <<"%Y", "-", "%m", "-", "%d">>,
       <<"%d", "/", "%m", "/", "%Y">>,
       <<"%m", "/", "%d", "/", "%Y">>,
       <<"%Y", "/", "%m", "/", "%d">>,
       <<"%B", " ", "%d", ",", " ", "%Y">>,
       <<"%b", " ", "%d", ",", " ", "%Y">>,
       <<"%d", "-", "%m", "-", "%Y">>,
       <<"%m", "-", "%d", "-", "%Y">>,
       <<"%m", "/", "%d", "/", "%y">>,
       <<"%d", "/", "%m", "/", "%y">> >>

\* bol_document_ai.py lines 952-963
BolDateFormats ==
    << <<"%Y", "-", "%m", "-", "%d">>,
       <<"%m", "/", "%d", "/", "%Y">>,
       <<"%d", "/", "%m", "/", "%Y">>,
       <<"%Y", "/", "%m", "/", "%d">>,
       <<"%B", " ", "%d", ",", " ", "%Y">>,
       <<"%b", " ", "%d", ",", " ", "%Y">>,
       <<"%d", "-", "%m", "-", "%Y">>,
       <<"%m", "-", "%d", "-", "%Y">>,
       <<"%m", "/", "%d", "/", "%y">>,
       <<"%d", "/", "%m", "/", "%y">> >>

\* document_ai.py lines 286-295
InvoiceDateFormats == SubSeq(BolDateFormats, 1, 8)

\* for fmt in date_formats: try ... except ValueError: continue, with the
\* handler left out: the first format that does not fit ends the parser
RECURSIVE TryFormatsUnhandled(_, _, _)
TryFormatsUnhandled(chars, formats, k) ==
    IF k > Len(formats) THEN Return(Absent)
    ELSE IF Strptime(chars, formats[k]).raised = "none"
    THEN Return(Some(Strptime(chars, formats[k]).value))
    ELSE Strptime(chars, formats[k])

\* for fmt in date_formats: try: return strptime(...) except ValueError:
\* continue; return None
RECURSIVE TryFormats(_, _, _)
TryFormats(chars, formats, k) ==
    IF k > Len(formats) THEN Return(Absent)
    ELSE IF Strptime(chars, formats[k]).raised = "none"
    THEN Return(Some(Strptime(chars, formats[k]).value))
    ELSE IF Strptime(chars, formats[k]).raised = "ValueError"
    THEN TryFormats(chars, formats, k + 1)
    ELSE Strptime(chars, formats[k])

\* BOLDocumentAIService._parse_date
ParseDate(date_str) ==
    IF ~Truthy(date_str) THEN Return(Absent)
    ELSE TryFormats(StripChars(Expand(date_str)), BolDateFormats, 1)

\* DocumentAIService._parse_date
InvoiceParseDate(date_str) ==
    IF ~Truthy(date_str) THEN Return(Absent)
    ELSE TryFormats(StripChars(Expand(date_str)), InvoiceDateFormats, 1)

\* re.sub(r'[^\d.,\-]', '', s).replace(',', '')
CleanedNumber(chars) ==
    SelectSeq(chars, LAMBDA c : c \in DigitChars \cup {".", "-"})

\* re.sub(r'[^\d\-]', '', s)
CleanedInt(chars) ==
    SelectSeq(chars, LAMBDA c : c \in DigitChars \cup {"-"})

Unsigned(cleaned) ==
    IF cleaned # <<>> /\ Head(cleaned) = "-" THEN Tail(cleaned) ELSE cleaned

Sign(cleaned) == IF cleaned # <<>> /\ Head(cleaned) = "-" THEN -1 ELSE 1

Count(chars, c) == Cardinality({i \in 1..Len(chars) : chars[i] = c})

Digits(chars) == SelectSeq(chars, LAMBDA c : c \in DigitChars)

\* the position of the point, or past the end when there is none
PointAt(chars) ==
    IF Count(chars, ".") = 0 THEN Len(chars) + 1
    ELSE Min({i \in 1..Len(chars) : chars[i] = "."})

\* [-]digits[.digits] with a digit somewhere: the numerals that Decimal()
\* and float() take among the strings over digits, "." and "-"
IsNumeral(cleaned) ==
    /\ Count(Unsigned(cleaned), "-") = 0
    /\ Count(cleaned, ".") <= 1
    /\ Digits(cleaned) # <<>>

\* the number a numeral denotes, of any length: its sign, its digits and
\* how many of them stand after the point
NumeralValue(cleaned) ==
    [negative |-> Sign(cleaned) = -1,
     digits |-> Digits(cleaned),
     scale |-> Len(cleaned) - Min({PointAt(cleaned), Len(cleaned)})]

AllZero(digits) == \A i \in 1..Len(digits) : digits[i] = "0"

\* value <= 1
AtMostOne(value) ==
    \/ value.negative
    \/ AllZero(SubSeq(value.digits, 1, Len(value.digits) - value.scale))
    \/ /\ Len(value.digits) > value.scale
       /\ value.digits[Len(value.digits) - value.scale] = "1"
       /\ AllZero(SubSeq(value.digits, 1,
                         Len(value.digits) - value.scale - 1))
       /\ AllZero(SubSeq(value.digits, Len(value.digits) - value.scale + 1,
                         Len(value.digits)))

\* Decimal(cleaned)
DecimalOf(cleaned) ==
    IF IsNumeral(cleaned) THEN Return(NumeralValue(cleaned))
    ELSE Raise("InvalidOperation", <<>>)

\* float(cleaned)
FloatOf(cleaned) ==
    IF IsNumeral(cleaned) THEN Return(NumeralValue(cleaned))
    ELSE Raise("ValueError", <<>>)

\* int(cleaned)
IntOf(cleaned) ==
    IF IsNumeral(cleaned) /\ Count(cleaned, ".") = 0
    THEN Return(NumeralValue(cleaned))
    ELSE Raise("ValueError", <<>>)

\* try: return <value>  except: return None
ExceptReturnNone(outcome) ==
    IF outcome.raised = "none" THEN Return(Some(outcome.value))
    ELSE Return(Absent)

\* the same body with no handler
NoExcept(outcome) ==
    IF outcome.raised = "none" THEN Return(Some(outcome.value))
    ELSE outcome

\* _parse_amount with Decimal(cleaned) outside the try block
ParseAmountUnhandled(amount_str) ==
    IF ~Truthy(amount_str) THEN Return(Absent)
    ELSE NoExcept(DecimalOf(CleanedNumber(Expand(amount_str))))

\* _parse_amount of both services
ParseAmount(amount_str) ==
    IF ~Truthy(amount_str) THEN Return(Absent)
    ELSE ExceptReturnNone(DecimalOf(CleanedNumber(Expand(amount_str))))

\* BOLDocumentAIService._parse_float, DocumentAIService._parse_quantity
ParseFloat(value_str) ==
    IF ~Truthy(value_str) THEN Return(Absent)
    ELSE ExceptReturnNone(FloatOf(CleanedNumber(Expand(value_str))))

\* return value if value <= 1 else value / 100
AsRate(outcome) ==
    IF outcome.raised # "none" \/ AtMostOne(outcome.value)
    THEN outcome
    ELSE Return([outcome.value EXCEPT !.scale = @ + 2])

\* DocumentAIService._parse_percentage
ParsePercentage(pct_str) ==
    IF ~Truthy(pct_str) THEN Return(Absent)
    ELSE ExceptReturnNone(AsRate(FloatOf(CleanedNumber(Expand(pct_str)))))

\* BOLDocumentAIService._parse_int
ParseInt(value_str) ==
    IF ~Truthy(value_str) THEN Return(Absent)
    ELSE ExceptReturnNone(IntOf(CleanedInt(Expand(value_str))))

(***************************************************************************)
(* SpecParse: one scalar parser applied to one text.                       *)
(***************************************************************************)
DateTokens == {"2024", "03", "11", "13", "-", "/", "Mar ", ", "}

NumberTokens == {"0", "5", "1.5", "-", ",", "$", " "}

InitParse ==
    /\ \/ \E n \in 0..MaxDateLen :
            \E t \in [1..n -> DateTokens] :
               scalar_in = [kind |-> "date", text |-> t]
       \/ \E n \in 0..MaxNumberLen :
            \E t \in [1..n -> NumberTokens] :
               scalar_in = [kind |-> "number", text |-> t]
       \/ \E kind \in {"date", "number"} :
            scalar_in = [kind |-> kind, text |-> None]
    /\ scalar_call = "none"
    /\ scalar_out = NotCalled
    /\ IdleItems
    /\ IdleAddr
    /\ IdleConf
    /\ IdleDoc
    /\ IdleValid
    /\ IdleInvoice
    /\ IdleMap
    /\ IdleTerms
    /\ IdleCtor
    /\ IdleConc
    /\ IdleSect
    /\ IdleMulti
    /\ IdleBatch
    /\ IdleDisc

RunParser(name, outcome) ==
    /\ scalar_call = "none"
    /\ scalar_call' = name
    /\ scalar_out' = outcome
    /\ UNCHANGED <<scalar_in, itemVars, addrVars, confVars, docVars, valVars,
                 invVars,
                 mapVars,
                 termsVars,
                 ctorVars,
                 concVars,
                 sectVars,
                 multiVars,
                 batchVars,
                 discVars>>

\* extract_bol_data: ship_date=self._parse_date(...)
RunParseDate ==
    /\ scalar_in.kind = "date"
    /\ RunParser("_parse_date", ParseDate(scalar_in.text))

\* extract_invoice_data line 122: invoice_date=self._parse_date(...)
RunInvoiceParseDate ==
    /\ scalar_in.kind = "date"
    /\ RunParser("invoice _parse_date", InvoiceParseDate(scalar_in.text))

RunParseAmount ==
    /\ scalar_in.kind = "number"
    /\ RunParser("_parse_amount", ParseAmount(scalar_in.text))

RunParseFloat ==
    /\ scalar_in.kind = "number"
    /\ RunParser("_parse_float", ParseFloat(scalar_in.text))

RunParsePercentage ==
    /\ scalar_in.kind = "number"
    /\ RunParser("_parse_percentage", ParsePercentage(scalar_in.text))

RunParseInt ==
    /\ scalar_in.kind = "number"
    /\ RunParser("_parse_int", ParseInt(scalar_in.text))

NextParse ==
    \/ RunParseDate
    \/ RunInvoiceParseDate
    \/ RunParseAmount
    \/ RunParseFloat
    \/ RunParsePercentage
    \/ RunParseInt

SpecParse == InitParse /\ [][NextParse]_vars

(***************************************************************************)
(* extract_invoice_data of document_ai.py (SpecInvoice): the entities, the *)
(* line items, the InvoiceData constructor with the checks pydantic makes  *)
(* on it, and the handler that wraps every exception in DocumentAIError.   *)
(* An extracted amount is the numeral the text denotes.                    *)
(***************************************************************************)
\* models/invoice.py: InvoiceData with the defaults of its optional fields
InvoiceData(fields) ==
    fields @@ [invoice_number |-> None, invoice_date |-> Absent,
               due_date |-> Absent, supplier_name |-> None,
               supplier_address |-> NoAddress, customer_name |-> None,
               customer_address |-> NoAddress, currency |-> <<"USD">>,
               subtotal |-> Absent, tax_amount |-> Absent,
               amount_due |-> Absent, line_items |-> <<>>,
               payment_terms |-> None, payment_method |-> None,
               confidence_scores |-> <<>>, raw_text |-> None,
               metadata |-> <<>>]

InvoiceLineItem(description, amount) ==
    [description |-> description, amount |-> amount]

Zero == [negative |-> FALSE, digits |-> <<"0">>, scale |-> 0]

\* truth value of an Optional[Decimal] read from text
TruthyNumeral(v) == v # Absent /\ ~AllZero(v[1].digits)

\* a or Decimal("0")
OrZero(v) == IF TruthyNumeral(v) THEN v ELSE Some(Zero)

\* d.get(k, default)
GetOr(d, k, default) == IF k \in DOMAIN d THEN d[k] ELSE default

\* DocumentAIService._extract_entities, lines 162-181
InvoiceExtractEntities(document) == StructuredEntities(document.entities, <<>>)

\* lines 194-201: the value kept for a property of a line item
ParsedProperty(prop_type, value) ==
    CASE prop_type \in {"amount", "unit_price", "tax_amount"}
           -> ParseAmount(value).value
      [] prop_type = "quantity" -> ParseFloat(value).value
      [] prop_type = "tax_rate" -> ParsePercentage(value).value
      [] OTHER -> value

\* lines 188-201: item_data, the last property of a type winning
InvoiceItemData(props) ==
    [k \in {LowerUnderscore(props[i].type_) : i \in 1..Len(props)} |->
       ParsedProperty(k,
          PropValue(props[Max({i \in 1..Len(props) :
                                 LowerUnderscore(props[i].type_) = k})]))]

\* InvoiceLineItem(...): description: str and amount: Decimal are required,
\* None is refused for either
NewInvoiceLineItem(description, amount) ==
    IF description = None \/ amount = Absent
    THEN Raise("ValidationError", <<"InvoiceLineItem">>)
    ELSE Return(InvoiceLineItem(description, amount[1]))

\* lines 204-211
LineItemOf(item_data) ==
    NewInvoiceLineItem(
        Or(Get(item_data, "description"),
           GetOr(item_data, "item_description", <<>>)),
        GetOr(item_data, "amount", Some(Zero)))

\* line 203
HasDescription(item_data) ==
    \/ Truthy(Get(item_data, "description"))
    \/ Truthy(Get(item_data, "item_description"))

RECURSIVE InvoiceItemsOfEntities(_, _)
\* line 212, unless the constructor raised
AppendLineItem(outcome, ents, line_items) ==
    IF outcome.raised # "none" THEN outcome
    ELSE InvoiceItemsOfEntities(ents, Append(line_items, outcome.value))

\* lines 186-212
InvoiceItemsOfEntities(ents, line_items) ==
    IF ents = <<>> THEN Return(line_items)
    ELSE IF /\ Lower(Head(ents).type_) = "line_item"
            /\ HasDescription(InvoiceItemData(Head(ents).properties))
    THEN AppendLineItem(LineItemOf(InvoiceItemData(Head(ents).properties)),
                        Tail(ents), line_items)
    ELSE InvoiceItemsOfEntities(Tail(ents), line_items)

\* _parse_table_row_to_line_item, lines 249-266
ParseTableRowToLineItem(row_data) ==
    IF ~Truthy(Or(Get(row_data, "description"),
                  Or(Get(row_data, "item"),
                     Or(Get(row_data, "product"), Get(row_data, "service")))))
    THEN <<>>
    ELSE <<InvoiceLineItem(
             Or(Get(row_data, "description"),
                Or(Get(row_data, "item"),
                   Or(Get(row_data, "product"), Get(row_data, "service")))),
             OrZero(ParseAmount(Or(Get(row_data, "amount"),
                                   Get(row_data, "total"))).value)[1])>>

RECURSIVE InvoiceTableRowsToItems(_, _)
InvoiceTableRowsToItems(headers, rows) ==
    IF rows = <<>> THEN <<>>
    ELSE (IF DOMAIN RowData(headers, Head(rows)) = {} THEN <<>>
          ELSE ParseTableRowToLineItem(RowData(headers, Head(rows))))
         \o InvoiceTableRowsToItems(headers, Tail(rows))

\* _extract_items_from_table, lines 223-246
InvoiceExtractItemsFromTable(table) ==
    IF table.header_rows = <<>> \/ table.body_rows = <<>> THEN <<>>
    ELSE InvoiceTableRowsToItems(
             [i \in 1..Len(table.header_rows[1]) |->
                LowerStrip(table.header_rows[1][i])],
             table.body_rows)

RECURSIVE InvoiceItemsOfTables(_)
InvoiceItemsOfTables(tables) ==
    IF tables = <<>> THEN <<>>
    ELSE InvoiceExtractItemsFromTable(Head(tables))
         \o InvoiceItemsOfTables(Tail(tables))

RECURSIVE InvoiceItemsOfPages(_)
InvoiceItemsOfPages(pages) ==
    IF pages = <<>> THEN <<>>
    ELSE InvoiceItemsOfTables(Head(pages).tables)
         \o InvoiceItemsOfPages(Tail(pages))

\* lines 214-221
OrItemsOfPages(outcome, pages) ==
    IF outcome.raised = "none" /\ outcome.value = <<>> /\ pages # <<>>
    THEN Return(InvoiceItemsOfPages(pages))
    ELSE outcome

\* DocumentAIService._extract_line_items
ExtractLineItems(document) ==
    OrItemsOfPages(InvoiceItemsOfEntities(document.entities, <<>>),
                   document.pages)

\* InvoiceData(...): currency: str is not Optional, None is refused
NewInvoiceData(fields) ==
    IF fields.currency = None
    THEN Raise("ValidationError", <<"InvoiceData">>)
    ELSE Return(InvoiceData(fields))

\* lines 115-156: the body of the try block; an exception of
\* _extract_line_items leaves it before the record is built
BuildInvoiceData(document, invoice_id, entities, line_items) ==
    IF line_items.raised # "none" THEN line_items
    ELSE NewInvoiceData(
      [invoice_id |-> invoice_id,
       invoice_number |-> Or(Get(entities, "invoice_id"),
                             Get(entities, "invoice_number")),
       invoice_date |-> InvoiceParseDate(Get(entities, "invoice_date")).value,
       due_date |-> InvoiceParseDate(Get(entities, "due_date")).value,
       supplier_name |-> Or(Get(entities, "supplier_name"),
                            Get(entities, "vendor_name")),
       supplier_address |-> ExtractAddress(entities, "supplier"),
       customer_name |-> Or(Get(entities, "receiver_name"),
                            Get(entities, "bill_to_name")),
       customer_address |-> ExtractAddress(entities, "receiver"),
       currency |-> GetOr(entities, "currency_code", <<"USD">>),
       subtotal |-> ParseAmount(Get(entities, "net_amount")).value,
       tax_amount |-> ParseAmount(Get(entities, "total_tax_amount")).value,
       total_amount |->
           OrZero(ParseAmount(Get(entities, "total_amount")).value),
       amount_due |-> ParseAmount(Get(entities, "amount_due")).value,
       line_items |-> line_items.value,
       payment_terms |-> Get(entities, "payment_terms"),
       payment_method |-> Get(entities, "payment_method"),
       confidence_scores |->
           InvoiceCalculateConfidenceScores(document.entities),
       raw_text |-> document.text,
       metadata |-> [page_count |-> Len(document.pages)]])

\* lines 158-160: except Exception as e: raise DocumentAIError(...)
TypedFailure(outcome) ==
    IF outcome.raised = "none" THEN outcome
    ELSE Raise("DocumentAIError", <<outcome.raised>> \o outcome.message)

\* extract_invoice_data without its handler
ExtractInvoiceDataUnhandled(document, invoice_id) ==
    BuildInvoiceData(document, invoice_id,
                     InvoiceExtractEntities(document),
                     ExtractLineItems(document))

\* DocumentAIService.extract_invoice_data
ExtractInvoiceData(document, invoice_id) ==
    TypedFailure(BuildInvoiceData(document, invoice_id,
                                  InvoiceExtractEntities(document),
                                  ExtractLineItems(document)))

DescriptionProps ==
    {<<>>, <<Prop("description", <<"W">>, None)>>,
     <<Prop("item_description", <<>>, <<"W">>)>>}

AmountProps ==
    {<<>>, <<Prop("amount", <<"5">>, None)>>,
     <<Prop("amount", <<"$">>, None)>>, <<Prop("amount", <<>>, None)>>}

QuantityProps == {<<>>, <<Prop("quantity", <<"-">>, None)>>}

LineItemEntities ==
    {<<>>} \cup
    {<<DocEntity("line_item", <<>>, None, 9, d \o a \o q)>> :
        d \in DescriptionProps, a \in AmountProps, q \in QuantityProps}

TotalEntities ==
    {<<>>, <<DocEntity("total_amount", <<"1.5">>, None, 7, <<>>)>>,
     <<DocEntity("total_amount", <<"$">>, None, 0, <<>>)>>}

CurrencyEntities ==
    {<<>>, <<DocEntity("currency_code", <<"USD">>, None, 9, <<>>)>>,
     <<DocEntity("currency_code", <<>>, None, 0, <<>>)>>}

DateEntities ==
    {<<>>,
     <<DocEntity("invoice_date", <<"2024", "-", "03", "-", "13">>, None, 9,
                 <<>>)>>,
     <<DocEntity("due_date", <<"13", "/", "13">>, None, 9, <<>>)>>}

InvoicePages ==
    {<<>>,
     <<[tables |-> <<Table(<<<<"description", "amount">>>>,
                           <<<<(<<"W">>), (<<"$">>)>>>>)>>]>>}

InitInvoice ==
    /\ \E l \in LineItemEntities, t \in TotalEntities,
          c \in CurrencyEntities, d \in DateEntities, p \in InvoicePages :
          inv_in = [text |-> <<"W">>, pages |-> p,
                    entities |-> t \o l \o c \o d]
    /\ inv_call = "none"
    /\ inv_out = NotCalled
    /\ IdleItems
    /\ IdleAddr
    /\ IdleConf
    /\ IdleDoc
    /\ IdleValid
    /\ IdleParse
    /\ IdleMap
    /\ IdleTerms
    /\ IdleCtor
    /\ IdleConc
    /\ IdleSect
    /\ IdleMulti
    /\ IdleBatch
    /\ IdleDisc

\* parse_invoice of parser.py, line 58
RunExtractInvoiceData ==
    /\ inv_call = "none"
    /\ inv_call' = "extract_invoice_data"
    /\ inv_out' = ExtractInvoiceData(inv_in, <<DocumentId>>)
    /\ UNCHANGED <<inv_in, itemVars, addrVars, confVars, docVars, valVars,
                   scalarVars,
                 mapVars,
                 termsVars,
                 ctorVars,
                 concVars,
                 sectVars,
                 multiVars,
                 batchVars,
                 discVars>>

NextInvoice == RunExtractInvoiceData

SpecInvoice == InitInvoice /\ [][NextInvoice]_vars

(***************************************************************************)
(* Validation of a parsed record behind the endpoints (SpecValid):         *)
(* validate_bol_data of bol_parser.py, validate_invoice_data of parser.py, *)
(* and the endpoints parse_bol of api/bol_parsing.py and parse_invoice of  *)
(* api/parsing.py from the return of the parse call on.                    *)
(* Amounts are whole cents, dates are day numbers; an Optional number is   *)
(* <<>> when absent and <<n>> when present.                                *)
(***************************************************************************)
\* truth value of an Optional[Decimal]: None and 0 are falsy
TruthyNumber(v) == v # Absent /\ v[1] # 0

Abs(n) == IF n < 0 THEN -n ELSE n

FracLess(a, b) == a.num * b.den < b.num * a.den

\* confidence_scores.get("overall", 0), in tenths
OverallOrZero(confidence_scores) ==
    IF "overall" \in DOMAIN confidence_scores
    THEN confidence_scores["overall"]
    ELSE Frac(0, 1)

\* if <condition>: warnings.append(<text>)
Finding(condition, text) == IF condition THEN <<text>> ELSE <<>>

\* validate_bol_data with the confidence threshold at the claim's own 0.4
ValidateBolDataLowThreshold(bol_data) ==
    Return(Finding(~Truthy(bol_data.bol_number), "BOL number not found")
        \o Finding(bol_data.shipper = NoAddress,
                   "Shipper information missing")
        \o Finding(bol_data.consignee = NoAddress,
                   "Consignee information missing")
        \o Finding(bol_data.shipment_items = <<>>, "No shipment items found")
        \o Finding(FracLess(OverallOrZero(bol_data.confidence_scores),
                            Frac(4, 1)),
                   "Low overall confidence score"))

\* validate_bol_data, lines 238-260
ValidateBolData(bol_data) ==
    Return(Finding(~Truthy(bol_data.bol_number), "BOL number not found")
        \o Finding(bol_data.shipper = NoAddress,
                   "Shipper information missing")
        \o Finding(bol_data.consignee = NoAddress,
                   "Consignee information missing")
        \o Finding(bol_data.shipment_items = <<>>, "No shipment items found")
        \o Finding(FracLess(OverallOrZero(bol_data.confidence_scores),
                            Frac(6, 1)),
                   "Low overall confidence score"))

RECURSIVE SumAmounts(_)
SumAmounts(line_items) ==
    IF line_items = <<>> THEN 0
    ELSE Head(line_items).amount + SumAmounts(Tail(line_items))

\* abs(a - b) > 0.01 on amounts in cents
Mismatch(a, b) == Abs(a - b) > 1

\* validate_invoice_data, lines 228-249: the errors list
InvoiceErrors(invoice_data) ==
       Finding(~TruthyNumber(invoice_data.total_amount)
                 \/ invoice_data.total_amount[1] <= 0,
               "Invalid total amount")
    \o Finding(/\ TruthyNumber(invoice_data.subtotal)
               /\ TruthyNumber(invoice_data.tax_amount)
               /\ Mismatch(invoice_data.subtotal[1]
                             + invoice_data.tax_amount[1],
                           invoice_data.total_amount[1]),
               "Total amount doesn't match subtotal + tax")
    \o Finding(/\ invoice_data.invoice_date # Absent
               /\ invoice_data.due_date # Absent
               /\ invoice_data.due_date[1] < invoice_data.invoice_date[1],
               "Due date is before invoice date")
    \o Finding(/\ invoice_data.line_items # <<>>
               /\ TruthyNumber(invoice_data.subtotal)
               /\ Mismatch(SumAmounts(invoice_data.line_items),
                           invoice_data.subtotal[1]),
               "Line items total doesn't match subtotal")
    \o Finding(FracLess(OverallOrZero(invoice_data.confidence_scores),
                        Frac(5, 1)),
               "Low confidence score")

\* lines 251-254
RaiseIfAny(errors) ==
    IF errors # <<>> THEN Raise("ValidationError", errors) ELSE Return(TRUE)

\* validate_invoice_data
ValidateInvoiceData(invoice_data) == RaiseIfAny(InvoiceErrors(invoice_data))

\* try: await validate(...)  except Exception as e: logger.warning(...)
CaughtAndLogged(result, outcome) ==
    [response |-> result,
     validation |-> outcome,
     logged |-> IF outcome.raised = "none" THEN <<>>
                ELSE <<"Validation warning">>]

\* the same call with no handler around it: the exception ends the endpoint
Uncaught(result, outcome) ==
    [response |-> IF outcome.raised = "none" THEN result
                  ELSE [success |-> FALSE, data |-> NoData],
     validation |-> outcome,
     logged |-> <<>>]

NotValidated(result) ==
    [response |-> result, validation |-> NotCalled, logged |-> <<>>]

\* parse_bol of api/bol_parsing.py, lines 51-57
ParseBolEndpoint(result) ==
    IF result.success /\ result.data # NoData
    THEN CaughtAndLogged(result, ValidateBolData(result.data))
    ELSE NotValidated(result)

\* parse_invoice with the validation call outside the try block
ParseInvoiceEndpointUncaught(result) ==
    IF result.success /\ result.data # NoData
    THEN Uncaught(result, ValidateInvoiceData(result.data))
    ELSE NotValidated(result)

\* parse_invoice of api/parsing.py, lines 49-55
ParseInvoiceEndpoint(result) ==
    IF result.success /\ result.data # NoData
    THEN CaughtAndLogged(result, ValidateInvoiceData(result.data))
    ELSE NotValidated(result)

ValidAddress == Address("name" :> <<"Acme">>)

ValidScores ==
    {<<>>} \cup {"overall" :> Frac(n, 1) : n \in {0, 4, 5, 6, 9}}

\* the records extract_multiple_bols can hand to the endpoint
ValidBolRecords ==
    {BOLData([bol_id |-> <<DocumentId>>, bol_number |-> n, shipper |-> a,
              consignee |-> c, shipment_items |-> i,
              confidence_scores |-> s]) :
        n \in {None, <<"7">>}, a \in {NoAddress, ValidAddress},
        c \in {NoAddress, ValidAddress},
        i \in {<<>>, <<ShipmentItem(<<"W">>, None)>>}, s \in ValidScores}

\* the records extract_invoice_data can hand to the endpoint
ValidInvoiceRecords ==
    {InvoiceData([invoice_id |-> <<DocumentId>>, total_amount |-> Some(t),
                  subtotal |-> u, tax_amount |-> x, invoice_date |-> d,
                  due_date |-> e, line_items |-> i,
                  confidence_scores |-> s]) :
        t \in {-100, 0, 11000}, u \in {Absent, Some(10000)},
        x \in {Absent, Some(1000), Some(1500)},
        d \in {Absent, Some(2)}, e \in {Absent, Some(1), Some(2)},
        i \in {<<>>, <<InvoiceLineItem(<<"W">>, 10000)>>,
               <<InvoiceLineItem(<<"W">>, 5000),
                 InvoiceLineItem(<<"W">>, 4000)>>},
        s \in {<<>>, "overall" :> Frac(4, 1), "overall" :> Frac(5, 1)}}

Failed == [success |-> FALSE, data |-> NoData]
Succeeded(data) == [success |-> TRUE, data |-> data]

InitValid ==
    /\ val_in \in
          {[kind |-> "bol", result |-> r] :
              r \in {Failed} \cup {Succeeded(d) : d \in ValidBolRecords}}
          \cup
          {[kind |-> "invoice", result |-> r] :
              r \in {Failed} \cup {Succeeded(d) : d \in ValidInvoiceRecords}}
    /\ val_call = "none"
    /\ val_out = NotValidated(Failed)
    /\ IdleItems
    /\ IdleAddr
    /\ IdleConf
    /\ IdleDoc
    /\ IdleParse
    /\ IdleInvoice
    /\ IdleMap
    /\ IdleTerms
    /\ IdleCtor
    /\ IdleConc
    /\ IdleSect
    /\ IdleMulti
    /\ IdleBatch
    /\ IdleDisc

RunParseBolEndpoint ==
    /\ val_call = "none"
    /\ val_in.kind = "bol"
    /\ val_call' = "parse_bol"
    /\ val_out' = ParseBolEndpoint(val_in.result)
    /\ UNCHANGED <<val_in, itemVars, addrVars, confVars, docVars,
                 scalarVars,
                 invVars,
                 mapVars,
                 termsVars,
                 ctorVars,
                 concVars,
                 sectVars,
                 multiVars,
                 batchVars,
                 discVars>>

RunParseInvoiceEndpoint ==
    /\ val_call = "none"
    /\ val_in.kind = "invoice"
    /\ val_call' = "parse_invoice"
    /\ val_out' = ParseInvoiceEndpoint(val_in.result)
    /\ UNCHANGED <<val_in, itemVars, addrVars, confVars, docVars,
                 scalarVars,
                 invVars,
                 mapVars,
                 termsVars,
                 ctorVars,
                 concVars,
                 sectVars,
                 multiVars,
                 batchVars,
                 discVars>>

NextValid == RunParseBolEndpoint \/ RunParseInvoiceEndpoint

SpecValid == InitValid /\ [][NextValid]_vars

(***************************************************************************)
(* Claims about the line-item extractors (SpecItems)                       *)
(***************************************************************************)
InSeq(x, s) == \E i \in 1..Len(s) : s[i] = x

ItemDoc == [entities |-> item_in.entities,
            pages |-> <<[tables |-> item_in.tables]>>]

StructuredItems == ItemsOfEntities(item_in.entities)
TableItems == ItemsOfTables(item_in.tables)
RawTextItems == TextItems(item_in.page_text)

\* C6: every LineItem the extractors return has a non-empty description
C6_EveryItemHasDescription ==
    \A i \in 1..Len(item_out.items) : item_out.items[i].description # <<>>

\* C7 as stated: the extractor returns the output of the first of
\* (1) structured entities, (2) tables, (3) raw text that yields an item;
\* (2) is attempted only if (1) yields none, (3) only if (2) yields none
C7_FirstOfThreeStrategies ==
    item_call # "none" =>
        /\ item_out.items =
               IF StructuredItems # <<>> THEN StructuredItems
               ELSE IF TableItems # <<>> THEN TableItems
               ELSE RawTextItems
        /\ InSeq("tables", item_out.attempted) => StructuredItems = <<>>
        /\ InSeq("text", item_out.attempted) => TableItems = <<>>

\* C7 amended: each extractor implements two of the three strategies; the
\* whole-document one tries structured entities, then tables only when the
\* entities yield no item, and never the raw text; the per-page one tries
\* the page's tables, then the raw text only when the tables yield no item,
\* and never the structured entities; each returns the first non-empty
\* output of its two strategies
C7_TwoStrategyPriority ==
    /\ item_call = "document" =>
          /\ item_out.items =
                 IF StructuredItems # <<>> THEN StructuredItems ELSE TableItems
          /\ ~InSeq("text", item_out.attempted)
          /\ InSeq("tables", item_out.attempted) => StructuredItems = <<>>
    /\ item_call = "page" =>
          /\ item_out.items =
                 IF TableItems # <<>> THEN TableItems ELSE RawTextItems
          /\ ~InSeq("entities", item_out.attempted)
          /\ InSeq("text", item_out.attempted) => TableItems = <<>>

\* the per-page extractor fell through to the raw text and found an item
\* while structured item entities were present
C7_Witness ==
    /\ item_call = "page"
    /\ StructuredItems # <<>>
    /\ TableItems = <<>>
    /\ item_out.attempted = <<"tables", "text">>
    /\ item_out.items # <<>>

\* C8: a page text with the item header and an NMFC code but no word that
\* could be a description yields exactly one item, described
\* "Item with NMFC #<code>"
C8_NmfcOnlyYieldsSynthesizedItem ==
    (/\ item_call = "page"
     /\ TableItems = <<>>
     /\ InSeq("PKG", item_in.page_text)
     /\ InSeq("NMFC", item_in.page_text)
     /\ ~InSeq("W", item_in.page_text))
    => item_out.items =
          <<ShipmentItem(SynthDescription(NmfcCode), NmfcCode)>>

(***************************************************************************)
(* Claims about the address assemblers (SpecAddr)                          *)
(***************************************************************************)
\* the keys either assembler reads for a role prefix
BolCandidateSuffixes ==
    {"", "_name", "_street", "_address", "_addr", "_city", "_state", "_zip",
     "_postal_code", "_postal", "_contact_name", "_contact",
     "_contact_phone", "_phone", "_country", "_address_block"}

InvoiceCandidateSuffixes ==
    {"_address", "_address_line_1", "_city", "_state", "_province",
     "_postal_code", "_zip", "_country"}

ComponentFound(entities, prefix, suffixes) ==
    \E suffix \in suffixes : Truthy(Get(entities, PrefixKey(prefix, suffix)))

\* C5: the assembler returns no address exactly when every candidate
\* component of the role prefix is absent or empty in the EntityMap
C5_NoAddressIffNoComponent ==
    /\ addr_call = "bol" =>
          (addr_out = NoAddress
             <=> ~ComponentFound(addr_in.entities, addr_in.prefix,
                                 BolCandidateSuffixes))
    /\ addr_call = "invoice" =>
          (addr_out = NoAddress
             <=> ~ComponentFound(addr_in.entities, addr_in.prefix,
                                 InvoiceCandidateSuffixes))

\* the part of C5 the invoice assembler meets on its own
C5_InvoiceAssemblerOnly ==
    addr_call = "invoice" =>
        (addr_out = NoAddress
           <=> ~ComponentFound(addr_in.entities, addr_in.prefix,
                               InvoiceCandidateSuffixes))

(***************************************************************************)
(* Claims about the confidence scorers (SpecConf)                          *)
(***************************************************************************)
\* the mean of the scores of a map other than "overall", 0.0 when there is
\* none
MeanOfOthers(scores) ==
    LET others == DOMAIN scores \ {"overall"}
        nums == [k \in others |-> scores[k].num]
    IN IF others = {} THEN Frac(0, 1)
       ELSE Frac(SumOver(nums, others), Cardinality(others))

\* C9: in every confidence map built by a scorer the value under "overall"
\* is the arithmetic mean of all other scores of the map, and 0.0 when the
\* map holds no other score
C9_OverallIsMeanOfOthers ==
    conf_call # "none" =>
        /\ "overall" \in DOMAIN conf_out
        /\ FracEq(conf_out["overall"], MeanOfOthers(conf_out))

\* what the scorers do meet: C9 for entity lists none of whose scored types
\* normalises to "overall"
C9_WithoutOverallEntity ==
    (/\ conf_call # "none"
     /\ \A i \in 1..Len(conf_in) :
           conf_in[i].confidence # 0
             => LowerUnderscore(conf_in[i].type_) # "overall")
    => /\ "overall" \in DOMAIN conf_out
       /\ FracEq(conf_out["overall"], MeanOfOthers(conf_out))

(***************************************************************************)
(* Claims about the record builders (SpecDoc)                              *)
(***************************************************************************)
TraceLines == {doc_out.trace[i] : i \in 1..Len(doc_out.trace)}

Returned == {doc_out.records[i] : i \in 1..Len(doc_out.records)}

\* what a step of the cascade of a trace line wrote (nothing when the step
\* did not run)
WroteBy(line, step) ==
    LET at == {i \in 1..Len(line.attempts) : line.attempts[i].step = step}
    IN IF at = {} THEN <<>> ELSE line.attempts[Min(at)].wrote

\* what the raw-text patterns yield on the text a trace line was built from
RawTextOf(line) ==
    IF line.scope = "page" THEN WroteBy(line, "text")
    ELSE ExtractFromText(doc_in.text)

\* C1: extract_multiple_bols never returns an empty list, and when no page
\* is accepted (or the document has no page) it returns exactly one record,
\* the one extracted from the whole document
C1_NeverEmptyWholeDocumentFallback ==
    doc_call = "multi" =>
        /\ Len(doc_out.records) >= 1
        /\ (\A line \in TraceLines : line.scope = "page" => ~line.accepted)
             => /\ Len(doc_out.records) = 1
                /\ doc_out.records[1] = ExtractBolData(doc_in, <<DocumentId>>)
                /\ doc_out.records[1].bol_id = <<DocumentId>>
                /\ doc_out.records[1].raw_text = doc_in.text

C1_Witness ==
    /\ doc_call = "multi"
    /\ doc_in.pages = <<>>
    /\ Len(doc_out.records) = 1
    /\ Truthy(doc_out.records[1].bol_number)
    /\ doc_out.records[1].raw_text = doc_in.text

\* C2: for every key a form field maps to and the raw-text patterns also
\* yield a value for, the EntityMap holds the form-field value, and so does
\* the record built from it (an empty form value shows as no value, never
\* as the raw-text value); for the whole document and for every page
C2_FormFieldValueWins ==
    \A line \in TraceLines :
        LET form == WroteBy(line, "form_fields")
            raw == RawTextOf(line)
        IN \A k \in DOMAIN form \cap DOMAIN raw :
              /\ k \in DOMAIN line.entities
              /\ line.entities[k] = form[k]
              /\ k = "bol_number" =>
                    \/ line.record.bol_number = form[k]
                    \/ ~Truthy(form[k]) /\ ~Truthy(line.record.bol_number)
              /\ (k = "shipper_name" /\ Truthy(form[k])) =>
                    /\ line.record.shipper # NoAddress
                    /\ line.record.shipper.name = form[k]

C2_Witness ==
    \E line \in TraceLines :
        /\ line.scope = "page"
        /\ "bol_number" \in DOMAIN WroteBy(line, "form_fields")
        /\ "bol_number" \in DOMAIN WroteBy(line, "text")
        /\ Truthy(WroteBy(line, "form_fields")["bol_number"])
        /\ WroteBy(line, "form_fields")["bol_number"]
             # WroteBy(line, "text")["bol_number"]
        /\ line.record.bol_number = WroteBy(line, "form_fields")["bol_number"]

StepRank(step) ==
    CASE step = "form_fields" -> 1
      [] step = "entities" -> 2
      [] step = "text" -> 3

\* the steps ran in the order form fields, structured entities, raw text,
\* the second only when the form fields wrote no key, the third only when
\* neither of the others wrote a key
CascadeInOrder(line) ==
    /\ \A i, j \in 1..Len(line.attempts) :
          i < j => StepRank(line.attempts[i].step)
                     < StepRank(line.attempts[j].step)
    /\ DOMAIN WroteBy(line, "entities") # {}
          => DOMAIN WroteBy(line, "form_fields") = {}
    /\ (\E i \in 1..Len(line.attempts) : line.attempts[i].step = "text")
          => /\ DOMAIN WroteBy(line, "form_fields") = {}
             /\ DOMAIN WroteBy(line, "entities") = {}

\* C3, as stated: the cascade of every record, page records included, runs
\* form fields, structured entities, raw text, each only if the steps
\* before it wrote nothing
C3_CascadeOfEveryRecord ==
    \A line \in TraceLines : CascadeInOrder(line)

\* C3, as the code has it: the cascade of the whole document runs in that
\* order, each step only if the steps before it wrote nothing; the record
\* of a page runs the raw-text patterns first, always, then the form fields
\* of the page when it has any, and no structured entities
C3_CascadeOfWholeDocumentOnly ==
    \A line \in TraceLines :
        /\ line.scope = "document" => CascadeInOrder(line)
        /\ line.scope = "page" =>
              /\ line.attempts[1].step = "text"
              /\ \A i \in 2..Len(line.attempts) :
                    line.attempts[i].step = "form_fields"
              /\ Len(line.attempts) =
                    (IF doc_in.pages[line.page_number].form_fields # <<>>
                     THEN 2 ELSE 1)

C3_Witness ==
    \E line \in TraceLines :
        /\ line.scope = "document"
        /\ DOMAIN WroteBy(line, "form_fields") # {}
        /\ Len(line.attempts) = 1
        /\ doc_in.entities # <<>>
        /\ DOMAIN ExtractFromText(doc_in.text) # {}

\* C4: a page is in the returned list only if it yields a record number or
\* a shipper or consignee address component; a page yielding none of them
\* is dropped
C4_PageKeptOnlyWithNumberOrParty ==
    doc_call = "multi" =>
        \A line \in TraceLines :
            line.scope = "page" =>
                (line.record \in Returned
                   <=> \/ Truthy(Get(line.entities, "bol_number"))
                       \/ ComponentFound(line.entities, "shipper",
                                         BolCandidateSuffixes)
                       \/ ComponentFound(line.entities, "consignee",
                                         BolCandidateSuffixes))

\* C10: every record returned, by the single-record path and by the page
\* split alike, carries a confidence map with the key "overall"
C10_EveryRecordHasOverall ==
    \A record \in Returned : "overall" \in DOMAIN record.confidence_scores

\* the part of C10 the single-record path meets
C10_SingleRecordPathOnly ==
    doc_call = "single" =>
        \A record \in Returned : "overall" \in DOMAIN record.confidence_scores

(***************************************************************************)
(* Claims about the validation step (SpecValid)                            *)
(***************************************************************************)
Validated(call) == val_call = call /\ val_in.result.success

\* C11: validation of a shipment record never rejects it: validate_bol_data
\* raises nothing, the endpoint returns the record it was given, and a
\* record with no line items and an "overall" confidence of 0.4 gets at
\* least the warnings "No shipment items found" and "Low overall confidence
\* score".
C11_BolValidationNeverRejects ==
    Validated("parse_bol") =>
        /\ val_out.validation.raised = "none"
        /\ val_out.response = val_in.result
        /\ (/\ val_in.result.data.shipment_items = <<>>
            /\ val_in.result.data.confidence_scores = "overall" :> Frac(4, 1))
           => /\ InSeq("No shipment items found", val_out.validation.value)
              /\ InSeq("Low overall confidence score",
                       val_out.validation.value)

C11_Witness ==
    /\ Validated("parse_bol")
    /\ val_in.result.data.shipment_items = <<>>
    /\ val_in.result.data.confidence_scores = "overall" :> Frac(4, 1)
    /\ Len(val_out.validation.value) >= 2
    /\ val_out.response.data = val_in.result.data

\* C12 (as stated): the validation step of an invoice record returns its
\* findings as warnings and does not raise, and the parse call returns the
\* record whatever the findings.
C12_InvoiceFindingsReturnedNotRaised ==
    Validated("parse_invoice") =>
        /\ val_out.validation.raised = "none"
        /\ val_out.response = val_in.result

\* C12 (amended): the findings on an invoice record are non-fatal for the
\* parse call: a zero or negative total, totals that do not add up, or a
\* low confidence make validate_invoice_data raise one ValidationError that
\* lists them, the endpoint catches and logs it, and the record is returned
\* whatever the findings.
C12_InvoiceFindingsRaisedAndCaught ==
    Validated("parse_invoice") =>
        /\ val_out.response = val_in.result
        /\ val_out.validation.raised \in {"none", "ValidationError"}
        /\ val_out.validation.raised = "ValidationError"
             <=> val_out.validation.message # <<>>
        /\ val_out.validation.raised = "ValidationError"
             <=> val_out.logged # <<>>
        /\ val_in.result.data.total_amount[1] <= 0
             => InSeq("Invalid total amount", val_out.validation.message)
        /\ (/\ val_in.result.data.subtotal = Some(10000)
            /\ val_in.result.data.tax_amount = Some(1500)
            /\ val_in.result.data.total_amount = Some(11000))
             => InSeq("Total amount doesn't match subtotal + tax",
                      val_out.validation.message)
        /\ val_in.result.data.confidence_scores
               \in {<<>>, "overall" :> Frac(4, 1)}
             => InSeq("Low confidence score", val_out.validation.message)

C12_Witness ==
    /\ Validated("parse_invoice")
    /\ val_in.result.data.total_amount = Some(0)
    /\ val_out.validation.raised = "ValidationError"
    /\ val_out.response.data = val_in.result.data

(***************************************************************************)
(* Claims about the scalar parsers (SpecParse)                             *)
(***************************************************************************)
\* C20: each scalar parser (date, amount, quantity/float, percentage,
\* integer) takes an absent or arbitrary text and never raises; an absent or
\* empty text yields absence, and so does a text that holds nothing to parse
\* (no digit at all) or, for a date, a text that names no calendar date.
C20_ScalarParsersNeverRaise ==
    scalar_call # "none" =>
        /\ scalar_out.raised = "none"
        /\ ~Truthy(scalar_in.text) => scalar_out.value = Absent
        /\ (Truthy(scalar_in.text) /\ Digits(Expand(scalar_in.text)) = <<>>)
             => scalar_out.value = Absent
        /\ (/\ scalar_call \in {"_parse_date", "invoice _parse_date"}
            /\ scalar_out.value # Absent)
             => ValidDate(scalar_out.value[1])

C20_Witness ==
    /\ scalar_call = "_parse_date"
    /\ scalar_in.text = <<"2024", "-", "13", "-", "03">>
    /\ scalar_out = Return(Absent)

(***************************************************************************)
(* Claims about extract_invoice_data (SpecInvoice)                         *)
(***************************************************************************)
\* C13: every helper inside the cascade degrades to absence instead of
\* aborting the extraction: for every well-formed analysis, also one whose
\* line-item entities carry unparseable amount or quantity text, the
\* extraction call returns a record and does not fail.
C13_ExtractionNeverFails ==
    inv_call = "extract_invoice_data" => inv_out.raised = "none"

C15_TwoMarkersTwoRecords ==
    (doc_call = "multi" /\ Len(BolMatches(doc_in.text)) = 2) =>
        /\ Len(doc_out.records) = 2
        /\ \A n \in 1..2 :
              /\ doc_out.records[n].bol_number =
                     DetectMultipleBols(doc_in.text)[n].bol_number
              /\ doc_out.records[n].raw_text =
                     DetectMultipleBols(doc_in.text)[n].text

\* C16: a document with zero or one record-number marker and no page data
\* yields exactly one record from the multi-record entry point: the record
\* of the whole document, under the document identifier of the caller.
C16_NoPagesOneWholeDocumentRecord ==
    (doc_call = "multi" /\ doc_in.pages = <<>>
       /\ Len(BolMatches(doc_in.text)) <= 1) =>
        /\ doc_out.records = <<ExtractBolData(doc_in, <<DocumentId>>)>>
        /\ doc_out.records[1].bol_id = <<DocumentId>>
        /\ doc_out.records[1].raw_text = doc_in.text

C16_Witness ==
    /\ doc_call = "multi"
    /\ doc_in.pages = <<>>
    /\ Len(BolMatches(doc_in.text)) = 1
    /\ Len(doc_out.records) = 1
    /\ doc_out.records[1].bol_number = <<"7">>

HasValueRegion(field) == field.field_value # NoAnchor

\* C17: form-field extraction writes a canonical key only for form fields
\* with both a name region and a value region: a field whose name maps to a
\* canonical key but which has no value region writes nothing, so the
\* EntityMap of the form-field step is the one its fields with a value
\* region give.
C17_FieldWithoutValueWritesNothing ==
    doc_call = "single" =>
        doc_out.trace[1].attempts[1].wrote =
            FormFieldEntities(doc_in.text,
                SelectSeq(FormFieldsOfPages(doc_in.pages), HasValueRegion),
                <<>>)

(***************************************************************************)
(* Claims about the field synonym mapper (SpecMap)                         *)
(***************************************************************************)
BothOccur(label, party) == {party, "name"} \subseteq Occurring(LowerLabel(label))

\* C19, as stated: the mapper returns the key of the first rule, in table
\* order, whose substrings all occur in the lower-cased label, and null
\* when no rule matches; every label holding both "shipper" (or
\* "consignee") and "name" maps to shipper_name (consignee_name); the
\* result does not depend on the letter case of the label.
C19_CombinedKeyForEveryLabel ==
    map_call = "_map_form_field_to_entity" =>
        /\ map_out = FirstRule(LowerLabel(map_in), 1)
        /\ map_out = MapFormFieldToEntity(LowerLabel(map_in))
        /\ BothOccur(map_in, "shipper") => map_out = "shipper_name"
        /\ BothOccur(map_in, "consignee") => map_out = "consignee_name"

\* C19, amended: the same, the combined key being returned for the labels
\* that hold both substrings and match no earlier rule of the table; the
\* single-substring key is never returned for a label holding both.
C19_CombinedKeyUnlessEarlierRule ==
    map_call = "_map_form_field_to_entity" =>
        /\ map_out = FirstRule(LowerLabel(map_in), 1)
        /\ map_out = MapFormFieldToEntity(LowerLabel(map_in))
        /\ BothOccur(map_in, "shipper") =>
             /\ map_out # "shipper"
             /\ (\A k \in 1..7 : ~Matches(MappingRules[k], LowerLabel(map_in)))
                  => map_out = "shipper_name"
        /\ BothOccur(map_in, "consignee") =>
             /\ map_out # "consignee"
             /\ (\A k \in 1..10 : ~Matches(MappingRules[k], LowerLabel(map_in)))
                  => map_out = "consignee_name"

C19_Witness ==
    /\ map_call = "_map_form_field_to_entity"
    /\ map_in = <<"SHIPPER", "Name">>
    /\ map_out = "shipper_name"

(***************************************************************************)
(* Claims about the freight charge terms (SpecTerms)                       *)
(***************************************************************************)
\* the label the terms equal without regard to letter case, or the terms
\* themselves
Normalized(words) ==
    CASE LowerLabel(words) = <<"prepaid">> -> <<"Prepaid">>
      [] LowerLabel(words) = <<"collect">> -> <<"Collect">>
      [] LowerLabel(words) = <<"third", "party">> -> <<"Third", "Party">>
      [] OTHER -> words

\* C18: the freight charge terms placed on a record are exactly one of the
\* labels Prepaid, Collect, Third Party whenever the source value equals
\* one of them case-insensitively, and the source value unchanged otherwise.
C18_TermsNormalizedOrPassedThrough ==
    (terms_call # "none" /\ terms_in # <<>>) =>
        terms_out = Normalized(terms_in)

(***************************************************************************)
(* Claims about ambiguous dates (SpecParse)                                *)
(***************************************************************************)
DateCall == scalar_call \in {"_parse_date", "invoice _parse_date"}

\* the text read as "%m/%d/%Y" and as "%d/%m/%Y"
MonthFirst ==
    Strptime(StripChars(Expand(scalar_in.text)), <<"%m", "/", "%d", "/", "%Y">>)
DayFirst ==
    Strptime(StripChars(Expand(scalar_in.text)), <<"%d", "/", "%m", "/", "%Y">>)

\* C21: a slash date a/b/YYYY is resolved by list order, MM/DD/YYYY first:
\* whenever the month-first reading is a valid date it is the result (month
\* a, day b), and the day-first reading (day a, month b) is the result only
\* when the month-first reading is not a valid date.
C21_MonthFirstForSlashDates ==
    (DateCall /\ Truthy(scalar_in.text)) =>
        /\ MonthFirst.raised = "none" =>
               scalar_out = Return(Some(MonthFirst.value))
        /\ (MonthFirst.raised # "none" /\ DayFirst.raised = "none") =>
               scalar_out = Return(Some(DayFirst.value))
        /\ (/\ DayFirst.raised = "none"
            /\ scalar_out = Return(Some(DayFirst.value))
            /\ DayFirst.value.m # DayFirst.value.d)
             => MonthFirst.raised # "none"

C21_Witness ==
    /\ scalar_call = "_parse_date"
    /\ scalar_in.text = <<"03", "/", "11", "/", "2024">>
    /\ scalar_out = Return(Some([y |-> 2024, m |-> 3, d |-> 11]))

(***************************************************************************)
(* Claims about the ShipmentItem constructor (SpecCtor)                    *)
(***************************************************************************)
\* C22: constructing a ShipmentItem with only a non-empty description
\* succeeds for every such description, and constructing one with no field
\* at all (an empty dictionary) fails with a validation error.
C22_DescriptionAloneSuffices ==
    ctor_call = "ShipmentItem" =>
        /\ (DOMAIN ctor_in = {"description"} /\ Truthy(ctor_in.description))
             => ctor_out = Return(ShipmentItem(ctor_in.description, None))
        /\ DOMAIN ctor_in = {} => ctor_out.raised = "ValidationError"

C22_Witness ==
    /\ ctor_call = "ShipmentItem"
    /\ DOMAIN ctor_in = {}
    /\ ctor_out.raised = "ValidationError"

(***************************************************************************)
(* Claims about concurrent extraction (SpecConc)                           *)
(***************************************************************************)
\* C23: the engine is safe under concurrent invocation: in every
\* interleaving of extraction calls on independent documents each call
\* returns the record it returns when run alone, and no call changes the
\* state of the service object or the document it was given.
C23_ConcurrentCallsAsAlone ==
    /\ \A c \in Callers :
          conc_pc[c] = "done" =>
              conc_out[c] = ExtractBolData(conc_in[c], CallerBolId(c))
    /\ conc_self = ServiceFields
    /\ conc_docs = conc_in

C23_Witness ==
    /\ conc_pc[1] = "done"
    /\ conc_pc[2] = "line 170"
    /\ conc_in[1] # conc_in[2]
    /\ conc_frames[2].entities # conc_frames[1].entities
    /\ conc_out[1] = ExtractBolData(conc_in[1], CallerBolId(1))

(***************************************************************************)
(* Claims about the raw-text fallback of the items (SpecItemText)          *)
(***************************************************************************)
TextFallbackRan ==
    item_call = "page" /\ item_out.attempted = <<"tables", "text">>

WindowGivesItem ==
    /\ ItemSection(item_in.page_text).found
    /\ NmfcSearch(ItemSection(item_in.page_text).text).ok

\* C24, as stated: the raw-text fallback of the item extractor yields at
\* most one item per record, never several.
C24_TextFallbackAtMostOneItem ==
    TextFallbackRan => Len(item_out.items) <= 1

\* C24, amended: the item window of the raw-text fallback yields at most
\* one item, into which its matches are merged; when the window yields
\* none, the scan of the whole page text for code/description pairs yields
\* one item per pair found.
C24_WindowOneItemElseOnePerPair ==
    TextFallbackRan =>
        /\ WindowGivesItem => Len(item_out.items) = 1
        /\ ~WindowGivesItem =>
              /\ Len(item_out.items) = Len(NmfcFindAll(item_in.page_text))
              /\ \A i \in 1..Len(item_out.items) :
                    item_out.items[i].description =
                        Strip(NmfcFindAll(item_in.page_text)[i].desc)

C24_Witness ==
    /\ TextFallbackRan
    /\ item_in.page_text = <<"PKG", "NMFC", "CM", "W", "CM", "NMFC", "CM">>
    /\ Len(item_out.items) = 1

(***************************************************************************)
(* Claims about the section detector (SpecSect)                            *)
(***************************************************************************)
\* the offsets (from 0) at which a record-number marker starts
MarkerOffsets(text) ==
    SortedSeq({i - 1 : i \in {j \in 1..Len(text) :
                                 BolMatchAt(text, j, FALSE).found}})

RECURSIVE ConcatTexts(_)
ConcatTexts(sections) ==
    IF sections = <<>> THEN <<>>
    ELSE Head(sections).text \o ConcatTexts(Tail(sections))

\* C25: for a text with k >= 2 record-number markers the detector returns
\* exactly k sections in marker order, the i-th running from the offset of
\* the i-th marker to the offset of the next one (the end of the text for
\* the last), so that the sections are contiguous, do not overlap and
\* concatenate to the text from the first marker on; for k <= 1 it returns
\* the whole text as the single section.
C25_SectionsPartitionFromFirstMarker ==
    sect_call = "_detect_multiple_bols" =>
      IF Len(MarkerOffsets(sect_in)) >= 2
      THEN /\ Len(sect_out) = Len(MarkerOffsets(sect_in))
           /\ \A i \in 1..Len(sect_out) :
                 /\ sect_out[i].position = MarkerOffsets(sect_in)[i]
                 /\ sect_out[i].position + Len(sect_out[i].text) =
                       IF i < Len(sect_out) THEN MarkerOffsets(sect_in)[i + 1]
                       ELSE Len(sect_in)
                 /\ sect_out[i].text =
                       PySlice(sect_in, sect_out[i].position,
                               sect_out[i].position + Len(sect_out[i].text))
           /\ ConcatTexts(sect_out) =
                 PySlice(sect_in, MarkerOffsets(sect_in)[1], Len(sect_in))
      ELSE /\ Len(sect_out) = 1
           /\ sect_out[1].text = sect_in

C25_Witness ==
    /\ sect_call = "_detect_multiple_bols"
    /\ sect_in = <<"Acme", "BOL #", "7", "NL", "BOL #", "7">>
    /\ Len(sect_out) = 2
    /\ sect_out[1].text = <<"BOL #", "7", "NL">>

(***************************************************************************)
(* Claims about the identifiers of split records (SpecDoc)                 *)
(***************************************************************************)
FromPage(record) == "page_number" \in DOMAIN record.metadata

\* "<document_id>-<n as 3 digits>"
ThreeDigitId(n) ==
    <<DocumentId, "-", DigitOf(n \div 100), DigitOf((n \div 10) % 10),
      DigitOf(n % 10)>>

\* C26: the records returned by one call of the multi-record entry point
\* have non-empty, pairwise distinct identifiers; the record of the page at
\* position n (from 1) has the identifier "<document_id>-<n as 3 digits>"
\* and metadata page_number n; the records are in page order.
C26_DistinctPageNumberedIds ==
    doc_call = "multi" =>
        /\ \A i \in 1..Len(doc_out.records) :
              /\ doc_out.records[i].bol_id # <<>>
              /\ FromPage(doc_out.records[i]) =>
                    /\ doc_out.records[i].metadata.page_number
                          \in 1..Len(doc_in.pages)
                    /\ doc_out.records[i].bol_id =
                          ThreeDigitId(doc_out.records[i].metadata.page_number)
                    /\ doc_out.records[i].raw_text =
                          GetPageText(doc_in, doc_in.pages[
                              doc_out.records[i].metadata.page_number])
        /\ \A i, j \in 1..Len(doc_out.records) :
              i < j =>
                 /\ doc_out.records[i].bol_id # doc_out.records[j].bol_id
                 /\ FromPage(doc_out.records[i])
                 /\ FromPage(doc_out.records[j])
                 /\ doc_out.records[i].metadata.page_number <
                       doc_out.records[j].metadata.page_number

C26_Witness ==
    /\ doc_call = "multi"
    /\ Len(doc_in.pages) = 3
    /\ Len(doc_out.records) = 3
    /\ doc_out.records[2].bol_number = <<"7">>
    /\ doc_out.records[2].bol_id = <<DocumentId, "-", "0", "0", "2">>
    /\ doc_out.records[3].bol_id = <<DocumentId, "-", "0", "0", "3">>


(***************************************************************************)
(* Claims about the parser's entry points (SpecMulti)                      *)
(***************************************************************************)
StageFailed ==
    \E i \in 1..Len(multi_calls) :
        multi_calls[i].raised /\ multi_calls[i].call # "delete_bol"

CleanUpAttempted ==
    \E i \in 1..Len(multi_calls) : multi_calls[i].call = "delete_bol"

\* upload, analysis and extraction returned, then one save per record of
\* the response, in order, then the preview URL
AllStagesSucceeded(response) ==
    /\ ~StageFailed
    /\ Len(ReturnedCalls("upload_file")) = 1
    /\ Len(ReturnedCalls("process_document")) = 1
    /\ Len(ReturnedCalls("extract_multiple_bols")) = 1
    /\ Len(ReturnedCalls("save_bol_data")) = Len(response.bols)
    /\ \A i \in 1..Len(response.bols) :
          ReturnedCalls("save_bol_data")[i].arg = response.bols[i].bol_id
    /\ Len(ReturnedCalls("get_bol_preview")) = 1

\* C27: parse_bol_multi never raises to its caller; a response with
\* success = true is returned only when upload, analysis, extraction, the
\* save of every record and the preview URL all succeeded, and its bol_count
\* is then the number of records returned; when a stage failed, clean-up was
\* attempted and the response has success = false, bol_count = 0 and no
\* record.
C27_AllOrNothingResponse ==
    /\ multi_out.raised \in {"none", "not called"}
    /\ multi_pc # "raised"
    /\ multi_pc \in {"line 39", "done"} => multi_out.raised = "none"
    /\ multi_out.raised = "none" =>
          /\ multi_out.value.shape = "MultiBOLParseResponse"
          /\ multi_out.value.success =>
                /\ AllStagesSucceeded(multi_out.value)
                /\ multi_out.value.bol_count = Len(multi_out.value.bols)
                /\ multi_out.value.bols # <<>>
          /\ StageFailed =>
                /\ CleanUpAttempted
                /\ ~multi_out.value.success
                /\ multi_out.value.bol_count = 0
                /\ multi_out.value.bols = <<>>
          /\ multi_out.value.success \/ StageFailed

\* the first of two records was saved, the save of the second failed, the
\* clean-up call failed too, and the caller holds a failure response
C27_Witness ==
    /\ multi_out.raised = "none"
    /\ ~multi_out.value.success
    /\ Len(multi_bols) = 2
    /\ Len(ReturnedCalls("save_bol_data")) = 1
    /\ \E i \in 1..Len(multi_calls) :
          /\ multi_calls[i] = Called("save_bol_data", multi_bols[2].bol_id,
                                     TRUE)
    /\ multi_calls[Len(multi_calls)] = Called("delete_bol", <<DocumentId>>,
                                              TRUE)

\* C28: whatever parse_bol returns is a single-record response, a
\* BOLParseResponse with the fields bol_id and data, on success and on
\* failure alike, never the multi-record response.
C28_SingleRecordShape ==
    multi_single.raised = "none" =>
        /\ multi_single.value.shape = "BOLParseResponse"
        /\ {"bol_id", "data"} \subseteq DOMAIN multi_single.value


(***************************************************************************)
(* Claims about batch parsing (SpecBatch, FairBatch)                       *)
(***************************************************************************)
\* every parse call of the batch was started and has returned
BatchRan == \A i \in DOMAIN batch_task : batch_task[i].state = "done"

\* parse_batch returned a response whose results are those of the files, in
\* the order of the files
ReportedInOrder ==
    /\ batch_out.raised = "none"
    /\ Len(batch_out.value.results) = batch_in.files
    /\ \A i \in DOMAIN batch_task :
          batch_out.value.results[i] = batch_task[i].result

\* never more than max_workers parse calls in flight, no file started twice
BatchBounded ==
    /\ Cardinality(InFlight) <= batch_in.max_workers
    /\ \A i \in DOMAIN batch_task : batch_task[i].started <= 1

\* C29: during parse_batch at most max_workers single-document parse calls
\* are in flight at any time, every file is processed exactly once, and
\* once they are processed the results are reported in the order of the
\* input files.
C29_BoundedExactlyOnceInOrder ==
    /\ BatchBounded
    /\ batch_pc = "done" /\ BatchRan =>
          /\ \A i \in DOMAIN batch_task : batch_task[i].started = 1
          /\ ReportedInOrder

\* the same for the invoice parser alone
InvoiceBatchInOrder ==
    batch_in.kind = "invoice" => C29_BoundedExactlyOnceInOrder

\* the BOL parser reports in order when no parse call failed
BolBatchInOrderWithoutFailure ==
    /\ batch_in.kind = "bol"
    /\ batch_pc = "done"
    /\ \A i \in DOMAIN batch_task : batch_task[i].result.success
    => ReportedInOrder

\* under FairBatch every call of parse_batch comes to its end
BatchTerminates == <>(batch_pc = "done")

\* under FairBatch every file of a BOL batch is processed
BolBatchProcessesEveryFile == (batch_in.kind = "bol") ~> BatchRan


(***************************************************************************)
(* Claims about lazy processor discovery (SpecDisc)                        *)
(***************************************************************************)
\* the processors created by the calls
CreatedProcessors ==
    {disc_server[k].id : k \in (Len(disc_in) + 1)..Len(disc_server)}

\* C30: with no processor id configured and several process_document calls
\* running concurrently on the service's threads, at most one processor is
\* ever created and all the calls use the same processor id.
C30_OneProcessorForAllCalls ==
    /\ Cardinality(CreatedProcessors) <= 1
    /\ \A s \in Threads : \A t \in Threads :
          disc_pc[s] = "done" /\ disc_pc[t] = "done" =>
              disc_used[s] = disc_used[t]

\* a processor found in the listing is the one every call uses
DiscoveredProcessorShared ==
    FirstInvoiceProcessor(disc_in) # <<>> =>
        /\ CreatedProcessors = {}
        /\ \A t \in Threads :
              disc_pc[t] = "done" =>
                  disc_used[t] = FirstInvoiceProcessor(disc_in)

====
